---- MODULE Spec2Model ----
(***************************************************************************)
(* The indexing pipeline of semantrix: Watcher -> Chunker -> Indexer ->    *)
(* vector table, with the ChunkId serialisation used by the Retriever.     *)
(***************************************************************************)
EXTENDS Integers, Sequences, FiniteSets, Bags, TLC

(***************************************************************************)
(* Bounds of the model.                                                    *)
(***************************************************************************)
MaxLines == 4
MaxFsEvents == 1
MaxChunkSize == 3
ChannelSize == 2
BatchSize == 2
MaxPatterns == 2
MaxQueries == 1
MaxCalls == 1
MaxParallelizm == 2
MaxHits == 2
MaxSymbols == 3
MaxStartLine == 3
MaxRulesets == 2
MaxRuleSymbols == 2

(***************************************************************************)
(* Paths are strings, modelled as sequences of characters.                 *)
(***************************************************************************)
D == <<"/", "d">>
DX == <<"/", "d", "x">>
F1 == <<"/", "d", "/", "f">>
F2 == <<"/", "d", "x", "/", "g">>
Files == {F1, F2}
Dirs == {D, DX}
WalkOrder == <<F1, F2>>
ParentDir(f) == IF f = F1 THEN D ELSE DX
Absent == 0 - 1

Min(a, b) == IF a < b THEN a ELSE b

IsPrefix(p, s) == Len(p) <= Len(s) /\ SubSeq(s, 1, Len(p)) = p

CharCode(c) ==
  CASE c = "/" -> 1
    [] c = "d" -> 2
    [] c = "x" -> 3
    [] c = "f" -> 4
    [] c = "g" -> 5
    [] OTHER -> 6

RECURSIVE PathCode(_)
PathCode(p) == IF p = <<>> THEN 0 ELSE PathCode(SubSeq(p, 1, Len(p) - 1)) * 8 + CharCode(p[Len(p)])

VARIABLES
  disk,              \* file -> number of lines, or Absent
  dirs,              \* directories that exist
  fsCount,           \* filesystem changes made so far
  wpc,               \* Watcher: "walk" | "watching" | "stopped" | "failed"
  walk,              \* Watcher: files of the initial walk not yet sent
  spawned,           \* debouncer: events held by spawned sender tasks
  path_event_rx,     \* Watcher -> Chunker channel
  chunks_rx,         \* Chunker -> Indexer channel (Option<TextChunk>)
  cpc,               \* Chunker: "idle" | "read" | "none" | "failed" | "cancelled" | "finished"
  cwalk,             \* Chunker: files still to process for the current event
  cfile,             \* Chunker: [path, len, pos] of the file being read
  text_chunk,        \* Chunker: the current TextChunk
  ipc,               \* Indexer: "idle" | "add" | "cancelled" | "finished"
  batch,             \* Indexer: Vec<ArcTextChunk>
  lastNone,          \* Indexer: the message being handled is None
  table,             \* the vector table: a bag of rows
  first_path_scan,
  first_chunks_scan,
  first_index_scan,
  chunk_size,        \* CONFIG.search.semantic.chunk_size
  overlap_size,      \* CONFIG.search.semantic.overlap_size
  sent,              \* history: every message put on the chunk channel
  everLens,          \* history: file -> contents the file has had
  everRemoved,       \* history: files that were removed at some time
  dirEvents,         \* history: a directory event has been issued
  nproc,             \* history: file -> completed process_file runs
  calls,             \* history: process_file calls that opened their file
  ser,               \* a ChunkId on its way through serde (stage, cid, wire, out)
  lsp_server_rx,     \* the watch cell: "None" | "Some"
  guard,             \* GuardedLspServer.guard: permits available
  lpc,               \* LspServerSubsystem: "off" | "init" | "serving" | "shutdown" | "done"
  call,              \* code_reuse_search: [pc, semantic_queries, name_patterns]
  fz,                \* get_fuzzy_symbols: [pc, todo]
  sm,                \* get_semantic_symbols: [pc, todo, chunks, uris]
  inflight,          \* LSP requests sent whose response has not arrived
  requests,          \* history: requests issued by the running or last call
  result,            \* what the last code_reuse_search returned
  ncalls,            \* history: code_reuse_search calls made
  parallelizm,       \* CONFIG.search.fuzzy.parallelizm
  mg,                \* one file's group on its way through the semantic merge
  rl,                \* a Ruleset and symbols on their way through get_rules
  srv_rx,            \* LspServer::new's receiver of ServerMessage: [queue, closed]
  responses,         \* what the client has sent back to the language server
  taken,             \* history: server messages taken from srv_rx, and by whom
  to_server,         \* history: "shutdown" and "exit" as sent by GuardedLspServer::shutdown
  shutdown_requested, \* the Toplevel has asked the subsystems to stop
  denied,            \* files that exist but cannot be opened
  positive,          \* files that match CONFIG.search.semantic.pattern
  pd,                \* two paths on their way through path_distance
  sy                 \* the LSP requests of one search and what they returned

fsvars == <<disk, dirs, fsCount, everLens, everRemoved, dirEvents>>
wvars == <<wpc, walk, spawned>>
cvars == <<cpc, cwalk, cfile, text_chunk>>
ivars == <<ipc, batch, lastNone>>
flags == <<first_path_scan, first_chunks_scan, first_index_scan>>
cfgvars == <<chunk_size, overlap_size>>
mcpvars == <<lsp_server_rx, guard, lpc, call, fz, sm, inflight, requests, result, ncalls, parallelizm>>
hvars == <<ser, mg, rl>>
lspvars == <<srv_rx, responses, taken, to_server>>
xvars == <<lspvars, shutdown_requested, denied, positive, pd, sy>>
aux == <<hvars, mcpvars, xvars>>
vars == <<fsvars, wvars, cvars, ivars, flags, cfgvars, path_event_rx, chunks_rx, table, sent, nproc, calls, aux>>

(***************************************************************************)
(* ChunkId and TextChunk (subsystems/chunker.rs).                          *)
(***************************************************************************)
ChunkId(path, start_line, end_line) ==
  [path |-> path, start_line |-> start_line, end_line |-> end_line]

\* DefaultHasher over (path, start_line, end_line): modelled as an encoding
\* that is collision-free on the model's paths and line numbers.
HashBase == 16
to_hash(cid) == (PathCode(cid.path) * HashBase + cid.start_line) * HashBase + cid.end_line

\* content of line i of a file that has L lines
FileLine(L, i) == <<L, i>>

NewTextChunk(path, start_line) ==
  [id |-> ChunkId(path, start_line, start_line + chunk_size),
   path |-> path,
   start_line |-> start_line,
   end_line |-> start_line + chunk_size,
   text |-> <<>>]

crop_last_chunk(tc) == [tc EXCEPT !.end_line = tc.start_line + Len(tc.text)]

is_full(tc) == Len(tc.text) = chunk_size

is_empty(tc) == tc.text = <<>>

push_line(tc, line) == [tc EXCEPT !.text = Append(tc.text, line)]

\* saturating_sub
SatSub(a, b) == IF a >= b THEN a - b ELSE 0

\* next_chunk that starts at end_line, without stepping back by the overlap
next_chunk_NoStepBack(tc) ==
  LET nc == NewTextChunk(tc.path, tc.end_line)
      tail == SubSeq(tc.text, SatSub(Len(tc.text), overlap_size) + 1, Len(tc.text))
  IN [nc EXCEPT !.text = tail]

\* next_chunk that carries over the first overlap_size lines instead of the last
next_chunk_HeadLines(tc) ==
  LET nc == NewTextChunk(tc.path, tc.end_line - overlap_size)
      head == SubSeq(tc.text, 1, Min(overlap_size, Len(tc.text)))
  IN [nc EXCEPT !.text = head]

next_chunk(tc) ==
  LET nc == NewTextChunk(tc.path, tc.end_line - overlap_size)
      tail == SubSeq(tc.text, SatSub(Len(tc.text), overlap_size) + 1, Len(tc.text))
  IN [nc EXCEPT !.text = tail]

\* The read loop of process_file up to its next send: push lines until the
\* chunk is full or the reader is exhausted.  Result: <<chunk, pos, full>>.
RECURSIVE ReadLines(_, _, _)
ReadLines(tc, pos, L) ==
  IF pos < L
  THEN LET t == push_line(tc, FileLine(L, pos))
       IN IF is_full(t) THEN <<t, pos + 1, TRUE>> ELSE ReadLines(t, pos + 1, L)
  ELSE <<tc, pos, FALSE>>

(***************************************************************************)
(* The vector table (repositories/mod.rs, subsystems/indexer.rs).          *)
(***************************************************************************)
\* Table::delete(predicate), given the rows the predicate selects
DeleteWhere(t, dead) ==
  LET keep == DOMAIN t \ dead IN [r \in keep |-> t[r]]

is_dir(p) == p \in dirs
is_file(p) == p \in Files /\ disk[p] # Absent

delete_by_path(t, path) ==
  IF is_dir(path)
  THEN DeleteWhere(t, {r \in DOMAIN t : IsPrefix(path, r.path)})
  ELSE DeleteWhere(t, {r \in DOMAIN t : r.path = path})

\* one row per chunk; the embedding column is the first embedding of the
\* chunk, i.e. that of its first line
Embedding(line) == line
AsRecord(c) ==
  [id |-> to_hash(c.id), path |-> c.path, start_line |-> c.start_line,
   end_line |-> c.end_line, embedding |-> Embedding(c.text[1])]

RECURSIVE as_record_batch(_)
as_record_batch(records) ==
  IF records = <<>> THEN EmptyBag
  ELSE SetToBag({AsRecord(Head(records))}) (+) as_record_batch(Tail(records))

\* a flush that deletes nothing before it appends
DeleteIds_None(t, b) == t

\* a flush that deletes the row of the first chunk of the batch only
DeleteIds_FirstOnly(t, b) ==
  DeleteWhere(t, {r \in DOMAIN t : b # <<>> /\ r.id = to_hash(b[1].id)})

DeleteIds(t, b) ==
  LET ids == {to_hash(b[i].id) : i \in 1..Len(b)}
  IN DeleteWhere(t, {r \in DOMAIN t : r.id \in ids})


(***************************************************************************)
(* Messages and events.                                                    *)
(***************************************************************************)
None == [some |-> FALSE]
Some(c) == [some |-> TRUE, chunk |-> c]
PathEvent(path, kind) == [path |-> path, kind |-> kind]

FileLens == {1, MaxLines}
SerOff == [stage |-> "off"]
NoFile == [path |-> <<>>, len |-> 0, pos |-> 0]
NoChunk == [id |-> ChunkId(<<>>, 0, 0), path |-> <<>>, start_line |-> 0, end_line |-> 0, text |-> <<>>]

\* files found by a glob walk below a directory, in walk order
RECURSIVE WalkFrom(_, _)
WalkFrom(order, dir) ==
  IF order = <<>> THEN <<>>
  ELSE IF is_file(Head(order)) /\ Head(order) \in positive /\ IsPrefix(dir \o <<"/">>, Head(order))
       THEN <<Head(order)>> \o WalkFrom(Tail(order), dir)
       ELSE WalkFrom(Tail(order), dir)

RECURSIVE WalkAll(_)
WalkAll(order) ==
  IF order = <<>> THEN <<>>
  ELSE IF is_file(Head(order)) /\ Head(order) \in positive
       THEN <<Head(order)>> \o WalkAll(Tail(order))
       ELSE WalkAll(Tail(order))

(***************************************************************************)
(* Initial state: main() after construction of the subsystems.             *)
(***************************************************************************)
InitPipe ==
  /\ wpc = "walk"
  /\ spawned = <<>>
  /\ path_event_rx = <<>>
  /\ chunks_rx = <<>>
  /\ cpc = "idle"
  /\ cwalk = <<>>
  /\ cfile = NoFile
  /\ text_chunk = NoChunk
  /\ ipc = "idle"
  /\ batch = <<>>
  /\ lastNone = FALSE
  /\ table = EmptyBag
  /\ first_path_scan = FALSE
  /\ first_chunks_scan = FALSE
  /\ first_index_scan = FALSE
  /\ sent = <<>>
  /\ nproc = [f \in Files |-> 0]
  /\ calls = 0
  /\ fsCount = 0
  /\ everRemoved = {}
  /\ dirEvents = FALSE

\* the Retriever side before any tool call
NoCall == [pc |-> "idle", semantic_queries |-> <<>>, name_patterns |-> <<>>]
BranchOff == [pc |-> "off", todo |-> <<>>]
SemanticOff == [pc |-> "off", todo |-> <<>>, chunks |-> {}, uris |-> <<>>]
NoResult == [kind |-> "none"]

InitCalls ==
  /\ call = NoCall
  /\ fz = BranchOff
  /\ sm = SemanticOff
  /\ inflight = {}
  /\ requests = <<>>
  /\ result = NoResult
  /\ ncalls = 0

\* no LSP subsystem and no MCP service: the pipeline alone
InitMcpOff ==
  /\ lsp_server_rx = "None"
  /\ guard = 0
  /\ lpc = "off"
  /\ parallelizm = 1
  /\ InitCalls

MergeOff == [stage |-> "off"]
RulesOff == [stage |-> "off"]
PdOff == [stage |-> "off"]
SyOff == [stage |-> "off"]

Subsystems == {"Watcher", "Chunker", "Indexer"}

\* no language-server traffic and no shutdown request
InitLspOff ==
  /\ srv_rx = [queue |-> <<>>, closed |-> FALSE]
  /\ responses = <<>>
  /\ taken = <<>>
  /\ to_server = <<>>

InitRunning == shutdown_requested = FALSE

\* every file can be opened and matches the glob
InitEnv ==
  /\ InitLspOff
  /\ InitRunning
  /\ denied = {}
  /\ positive = Files

InitExt == InitEnv /\ pd = PdOff /\ sy = SyOff

InitCommon == InitPipe /\ ser = SerOff /\ mg = MergeOff /\ rl = RulesOff /\ InitMcpOff /\ InitExt

Init ==
  /\ disk \in [Files -> {Absent} \cup FileLens]
  /\ dirs = {ParentDir(f) : f \in {g \in Files : disk[g] # Absent}}
  /\ everLens = [f \in Files |-> IF disk[f] = Absent THEN {} ELSE {disk[f]}]
  /\ chunk_size = MaxChunkSize
  /\ overlap_size = 1
  /\ InitCommon
  /\ walk = WalkAll(WalkOrder)

(***************************************************************************)
(* The filesystem (environment) and the debouncer (watcher.rs 30-78).      *)
(***************************************************************************)
\* a debouncer that is started before the walk
FsEvent_BeforeWalk(ev) ==
  /\ fsCount < MaxFsEvents
  /\ fsCount' = fsCount + 1
  /\ spawned' = Append(spawned, ev)

FsEvent(ev) ==
  /\ wpc = "watching"
  /\ fsCount < MaxFsEvents
  /\ fsCount' = fsCount + 1
  /\ spawned' = Append(spawned, ev)

FsWrite(f, L) ==
  /\ FsEvent(PathEvent(f, IF disk[f] = Absent THEN "Create" ELSE "Modify"))
  /\ disk' = [disk EXCEPT ![f] = L]
  /\ dirs' = dirs \cup {ParentDir(f)}
  /\ everLens' = [everLens EXCEPT ![f] = @ \cup {L}]
  /\ UNCHANGED <<everRemoved, dirEvents, wpc, walk, cvars, ivars, flags, cfgvars, path_event_rx, chunks_rx, table, sent, nproc, calls, aux>>

FsRemoveFile(f) ==
  /\ disk[f] # Absent
  /\ FsEvent(PathEvent(f, "Remove"))
  /\ disk' = [disk EXCEPT ![f] = Absent]
  /\ everRemoved' = everRemoved \cup {f}
  /\ UNCHANGED <<dirs, everLens, dirEvents, wpc, walk, cvars, ivars, flags, cfgvars, path_event_rx, chunks_rx, table, sent, nproc, calls, aux>>

FsRemoveDir(d) ==
  /\ d \in dirs
  /\ FsEvent(PathEvent(d, "Remove"))
  /\ disk' = [f \in Files |-> IF ParentDir(f) = d THEN Absent ELSE disk[f]]
  /\ dirs' = dirs \ {d}
  /\ everRemoved' = everRemoved \cup {f \in Files : ParentDir(f) = d /\ disk[f] # Absent}
  /\ dirEvents' = TRUE
  /\ UNCHANGED <<everLens, wpc, walk, cvars, ivars, flags, cfgvars, path_event_rx, chunks_rx, table, sent, nproc, calls, aux>>

FsTouchDir(d) ==
  /\ d \in dirs
  /\ FsEvent(PathEvent(d, "Modify"))
  /\ dirEvents' = TRUE
  /\ UNCHANGED <<disk, dirs, everLens, everRemoved, wpc, walk, cvars, ivars, flags, cfgvars, path_event_rx, chunks_rx, table, sent, nproc, calls, aux>>

\* a task spawned by the debouncer callback sends its event
DebouncerSend(i) ==
  /\ i \in 1..Len(spawned)
  /\ Len(path_event_rx) < ChannelSize
  /\ path_event_rx' = Append(path_event_rx, spawned[i])
  /\ spawned' = SubSeq(spawned, 1, i - 1) \o SubSeq(spawned, i + 1, Len(spawned))
  /\ UNCHANGED <<fsvars, wpc, walk, cvars, ivars, flags, cfgvars, chunks_rx, table, sent, nproc, calls, aux>>

\* run() has returned and dropped the subsystem with its channel ends
WatcherGone == wpc \in {"stopped", "failed"}
ChunkerGone == cpc \in {"failed", "cancelled", "finished"}
IndexerGone == ipc \in {"cancelled", "finished"}

(***************************************************************************)
(* Watcher (watcher.rs 87-140).                                            *)
(***************************************************************************)
WatcherWalkSend ==
  /\ wpc = "walk"
  /\ walk # <<>>
  /\ ~ChunkerGone
  /\ Len(path_event_rx) < ChannelSize
  /\ path_event_rx' = Append(path_event_rx, PathEvent(Head(walk), "Create"))
  /\ walk' = Tail(walk)
  /\ UNCHANGED <<fsvars, wpc, spawned, cvars, ivars, flags, cfgvars, chunks_rx, table, sent, nproc, calls, aux>>

\* a walk that ends without the store to first_path_scan
WatcherWalkDone_NoStore ==
  /\ wpc = "walk"
  /\ walk = <<>>
  /\ wpc' = "watching"
  /\ UNCHANGED <<fsvars, walk, spawned, cvars, ivars, flags, cfgvars, path_event_rx, chunks_rx, table, sent, nproc, calls, aux>>

WatcherWalkDone ==
  /\ wpc = "walk"
  /\ walk = <<>>
  /\ first_path_scan' = TRUE
  /\ wpc' = "watching"
  /\ UNCHANGED <<fsvars, walk, spawned, cvars, ivars, first_chunks_scan, first_index_scan, cfgvars, path_event_rx, chunks_rx, table, sent, nproc, calls, aux>>

(***************************************************************************)
(* Chunker (chunker.rs 40-128).                                            *)
(***************************************************************************)
\* first_chunks_scan after process_file has sent the None marker
\* a promotion that does not look at first_path_scan
Promote_NoPathScan(events) == first_chunks_scan \/ events = <<>>

\* first_chunks_scan after process_file has sent its None
Promote(events) == first_chunks_scan \/ (first_path_scan /\ events = <<>>)

\* File::open + TextChunk::new at the head of process_file; opening a file
\* that no longer exists or that may not be read fails and the error leaves run()
StartFiles(files) ==
  IF files = <<>>
  THEN /\ cpc' = "idle"
       /\ cwalk' = <<>>
       /\ cfile' = NoFile
       /\ text_chunk' = NoChunk
       /\ calls' = calls
  ELSE IF is_file(Head(files)) /\ Head(files) \notin denied
       THEN /\ cpc' = "read"
            /\ cwalk' = Tail(files)
            /\ cfile' = [path |-> Head(files), len |-> disk[Head(files)], pos |-> 0]
            /\ text_chunk' = NewTextChunk(Head(files), 0)
            /\ calls' = calls + 1
       ELSE /\ cpc' = "failed"
            /\ cwalk' = <<>>
            /\ cfile' = NoFile
            /\ text_chunk' = NoChunk
            /\ calls' = calls

\* run(): receive one PathEvent, delete the stale rows, open the first file
ChunkerRecv ==
  /\ cpc = "idle"
  /\ path_event_rx # <<>>
  /\ LET event == Head(path_event_rx) IN
       /\ path_event_rx' = Tail(path_event_rx)
       /\ table' = delete_by_path(table, event.path)
       /\ IF event.kind = "Remove"
          THEN StartFiles(<<>>)
          ELSE IF is_file(event.path)
               THEN StartFiles(<<event.path>>)
               ELSE IF is_dir(event.path)
                    THEN StartFiles(WalkFrom(WalkOrder, event.path))
                    ELSE StartFiles(<<>>)
  /\ UNCHANGED <<fsvars, wvars, ivars, flags, cfgvars, chunks_rx, sent, nproc, aux>>

SendChunk(msg) ==
  /\ ~IndexerGone
  /\ Len(chunks_rx) < ChannelSize
  /\ chunks_rx' = Append(chunks_rx, msg)
  /\ sent' = Append(sent, [msg |-> msg, call |-> calls, path |-> cfile.path, len |-> cfile.len])

\* process_file: the chunk became full; send it and start its successor
ChunkerSendFull ==
  /\ cpc = "read"
  /\ LET r == ReadLines(text_chunk, cfile.pos, cfile.len) IN
       /\ r[3]
       /\ SendChunk(Some(r[1]))
       /\ text_chunk' = next_chunk(r[1])
       /\ cfile' = [cfile EXCEPT !.pos = r[2]]
  /\ UNCHANGED <<fsvars, wvars, ivars, flags, cfgvars, cpc, cwalk, path_event_rx, table, nproc, calls, aux>>

\* process_file: the reader is exhausted and the current chunk is not empty
ChunkerSendLast ==
  /\ cpc = "read"
  /\ LET r == ReadLines(text_chunk, cfile.pos, cfile.len) IN
       /\ ~r[3]
       /\ ~is_empty(r[1])
       /\ SendChunk(Some(crop_last_chunk(r[1])))
       /\ text_chunk' = crop_last_chunk(r[1])
       /\ cfile' = [cfile EXCEPT !.pos = r[2]]
       /\ cpc' = "none"
  /\ UNCHANGED <<fsvars, wvars, ivars, flags, cfgvars, cwalk, path_event_rx, table, nproc, calls, aux>>

\* process_file that sends the None marker only after a last chunk
ChunkerSendNone_OnlyAfterChunk ==
  /\ \/ /\ cpc = "none"
        /\ SendChunk(None)
     \/ /\ cpc = "read"
        /\ LET r == ReadLines(text_chunk, cfile.pos, cfile.len) IN ~r[3] /\ is_empty(r[1])
        /\ UNCHANGED <<chunks_rx, sent>>
  /\ first_chunks_scan' = Promote(path_event_rx)
  /\ nproc' = [nproc EXCEPT ![cfile.path] = @ + 1]
  /\ StartFiles(cwalk)
  /\ UNCHANGED <<fsvars, wvars, ivars, first_path_scan, first_index_scan, cfgvars, path_event_rx, table, aux>>

\* process_file: the None marker, then the readiness promotion; run() goes on
\* with the next file of the walk or with the next event
ChunkerSendNone ==
  /\ \/ cpc = "none"
     \/ /\ cpc = "read"
        /\ LET r == ReadLines(text_chunk, cfile.pos, cfile.len) IN ~r[3] /\ is_empty(r[1])
  /\ SendChunk(None)
  /\ first_chunks_scan' = Promote(path_event_rx)
  /\ nproc' = [nproc EXCEPT ![cfile.path] = @ + 1]
  /\ StartFiles(cwalk)
  /\ UNCHANGED <<fsvars, wvars, ivars, first_path_scan, first_index_scan, cfgvars, path_event_rx, table, aux>>

(***************************************************************************)
(* Indexer (indexer.rs 41-117).                                            *)
(***************************************************************************)
\* a flush that waits for a full batch only
NeedFlush_OnlyFull(b, isNone) == Len(b) = BatchSize

NeedFlush(b, isNone) == Len(b) = BatchSize \/ (isNone /\ b # <<>>)

\* a flag that stores the outcome of its test instead of only being set
IndexScan_Store(rx, isNone) == first_chunks_scan /\ rx = <<>> /\ isNone

\* a flag set without looking at first_chunks_scan
IndexScan_NoChunksTest(rx, isNone) == first_index_scan \/ (rx = <<>> /\ isNone)

\* first_index_scan after a message has been handled
IndexScan(rx, isNone) == first_index_scan \/ (first_chunks_scan /\ rx = <<>> /\ isNone)

\* receive one message; when the batch is due, delete the rows of its ids
IndexerRecv ==
  /\ ipc = "idle"
  /\ chunks_rx # <<>>
  /\ LET chunk == Head(chunks_rx)
         b == IF chunk.some THEN Append(batch, chunk.chunk) ELSE batch
     IN /\ chunks_rx' = Tail(chunks_rx)
        /\ batch' = b
        /\ lastNone' = ~chunk.some
        /\ IF NeedFlush(b, ~chunk.some)
           THEN /\ table' = DeleteIds(table, b)
                /\ ipc' = "add"
                /\ UNCHANGED first_index_scan
           ELSE /\ first_index_scan' = IndexScan(Tail(chunks_rx), ~chunk.some)
                /\ UNCHANGED <<table, ipc>>
  /\ UNCHANGED <<fsvars, wvars, cvars, first_path_scan, first_chunks_scan, cfgvars, path_event_rx, sent, nproc, calls, aux>>

\* embed the batch, append its rows, clear it
IndexerAdd ==
  /\ ipc = "add"
  /\ table' = table (+) as_record_batch(batch)
  /\ batch' = <<>>
  /\ ipc' = "idle"
  /\ first_index_scan' = IndexScan(chunks_rx, lastNone)
  /\ UNCHANGED <<fsvars, wvars, cvars, first_path_scan, first_chunks_scan, cfgvars, lastNone, path_event_rx, chunks_rx, sent, nproc, calls, aux>>

(***************************************************************************)
(* The pipeline.                                                           *)
(***************************************************************************)
Next ==
  \/ \E f \in Files, L \in FileLens : FsWrite(f, L)
  \/ \E f \in Files : FsRemoveFile(f)
  \/ \E d \in Dirs : FsRemoveDir(d)
  \/ \E d \in Dirs : FsTouchDir(d)
  \/ \E i \in 1..MaxFsEvents : DebouncerSend(i)
  \/ WatcherWalkSend
  \/ WatcherWalkDone
  \/ ChunkerRecv
  \/ ChunkerSendFull
  \/ ChunkerSendLast
  \/ ChunkerSendNone
  \/ IndexerRecv
  \/ IndexerAdd

Spec == Init /\ [][Next]_vars

(***************************************************************************)
(* Derived notions used by the properties.                                 *)
(***************************************************************************)
\* the chunks one run of process_file sends for a file of L lines
RECURSIVE FileChunks(_, _, _)
FileChunks(tc, pos, L) ==
  LET r == ReadLines(tc, pos, L)
  IN IF r[3] THEN <<r[1]>> \o FileChunks(next_chunk(r[1]), r[2], L)
     ELSE IF is_empty(r[1]) THEN <<>> ELSE <<crop_last_chunk(r[1])>>

process_file(path, L) == FileChunks(NewTextChunk(path, 0), 0, L)

\* both channels drained, no sender pending, Chunker and Indexer idle
Quiescent ==
  /\ wpc = "watching"
  /\ spawned = <<>>
  /\ path_event_rx = <<>>
  /\ cpc = "idle"
  /\ chunks_rx = <<>>
  /\ ipc = "idle"

RowsOf(f) == DeleteWhere(table, {r \in DOMAIN table : r.path # f})

Range(r) == <<r.path, r.start_line, r.end_line>>

\* the (path, start_line, end_line) of the rows of f, with multiplicity
RangesOf(f) ==
  LET rows == RowsOf(f)
      rs == {Range(r) : r \in DOMAIN rows}
      Sum(x) == LET same == {r \in DOMAIN rows : Range(r) = x}
                    RECURSIVE Add(_)
                    Add(S) == IF S = {} THEN 0
                              ELSE LET r == CHOOSE q \in S : TRUE IN rows[r] + Add(S \ {r})
                IN Add(same)
  IN [x \in rs |-> Sum(x)]

RECURSIVE RangesBag(_)
RangesBag(cs) ==
  IF cs = <<>> THEN EmptyBag
  ELSE SetToBag({Range(Head(cs))}) (+) RangesBag(Tail(cs))

RowId(r) == to_hash(ChunkId(r.path, r.start_line, r.end_line))

(***************************************************************************)
(* Properties of the pipeline.                                             *)
(***************************************************************************)
\* C1: at quiescence after Create/Modify events on files only, the rows of a
\* file that exists and was never removed are exactly the chunk ranges of
\* its latest content.
C1_RowsAreLatestContent ==
  \A f \in Files :
    (Quiescent /\ ~dirEvents /\ disk[f] # Absent /\ f \notin everRemoved)
      => RangesOf(f) = RangesBag(process_file(f, disk[f]))

\* C2: at quiescence, a file that was removed by a file removal (so that its
\* Remove event has been handled) has no row.
C2_RemovedFileHasNoRows ==
  \A f \in Files :
    (Quiescent /\ ~dirEvents /\ disk[f] = Absent /\ f \in everRemoved)
      => RowsOf(f) = EmptyBag

\* C3: handling a Remove event for a directory that is gone from the disk
\* deletes exactly the rows of the files inside that directory.
C3_RemoveDirDeletesPrefix ==
  [][(ChunkerRecv /\ Head(path_event_rx).kind = "Remove"
        /\ Head(path_event_rx).path \in Dirs /\ ~is_dir(Head(path_event_rx).path))
      => LET dir == Head(path_event_rx).path
         IN table' = DeleteWhere(table, {r \in DOMAIN table : IsPrefix(dir \o <<"/">>, r.path)})]_vars

\* C4: the id of every row is the hash of the row's own path, start_line
\* and end_line.
C4_RowIdIsHashOfRow ==
  \A r \in DOMAIN table : r.id = RowId(r)

\* C9: at quiescence after Create/Modify events on files only, a file that
\* was never removed and has had one content only has the rows of one run
\* of process_file, however often it was processed.
C9_UpsertIdempotent ==
  \A f \in Files :
    (Quiescent /\ ~dirEvents /\ disk[f] # Absent /\ f \notin everRemoved
       /\ everLens[f] = {disk[f]} /\ nproc[f] >= 1)
      => RowsOf(f) = as_record_batch(process_file(f, disk[f]))

C9_Witness ==
  /\ Quiescent
  /\ ~dirEvents
  /\ disk[F1] = MaxLines
  /\ F1 \notin everRemoved
  /\ everLens[F1] = {MaxLines}
  /\ nproc[F1] >= 2
  /\ RowsOf(F1) # EmptyBag

BatchIds == {to_hash(batch[i].id) : i \in 1..Len(batch)}

\* C10: the table never holds two rows with one id, no batch holds two
\* chunks with one id, and between the delete and the append of a flush the
\* table holds no row with an id of the batch.
C10_OneRowPerId ==
  /\ \A r \in DOMAIN table : table[r] = 1
  /\ \A r1, r2 \in DOMAIN table : r1.id = r2.id => r1 = r2
  /\ Cardinality(BatchIds) = Len(batch)
  /\ ipc = "add" => \A r \in DOMAIN table : r.id \notin BatchIds

\* a batch that is about to replace a row the table already holds
C10_Witness ==
  /\ ipc = "idle"
  /\ \E r \in DOMAIN table : r.id \in BatchIds

\* C11: the three readiness flags start false and no step of any subsystem
\* sets a flag that is true back to false.
C11_FlagsMonotonic ==
  /\ ~first_path_scan /\ ~first_chunks_scan /\ ~first_index_scan
  /\ [][/\ first_path_scan => first_path_scan'
        /\ first_chunks_scan => first_chunks_scan'
        /\ first_index_scan => first_index_scan']_vars

\* all three flags are set and the Indexer has since taken a chunk into its
\* batch, so that its test for the flag has run and failed
C11_Witness ==
  /\ first_path_scan /\ first_chunks_scan /\ first_index_scan
  /\ ipc = "idle"
  /\ batch # <<>>

(***************************************************************************)
(* Chunking over all configurations: chunk_size, overlap_size and the      *)
(* lengths of the files are drawn at the start; the workspace does not     *)
(* change except for directory touches, which make the Chunker walk.       *)
(***************************************************************************)
ChunkInit ==
  /\ chunk_size \in 1..MaxChunkSize
  /\ overlap_size \in 0..(chunk_size - 1)
  /\ disk \in [Files -> 0..MaxLines]
  /\ dirs = Dirs
  /\ everLens = [f \in Files |-> {disk[f]}]
  /\ InitCommon
  /\ walk = WalkAll(WalkOrder)

ChunkNext ==
  \/ \E d \in Dirs : FsTouchDir(d)
  \/ \E i \in 1..MaxFsEvents : DebouncerSend(i)
  \/ WatcherWalkSend
  \/ WatcherWalkDone
  \/ ChunkerRecv
  \/ ChunkerSendFull
  \/ ChunkerSendLast
  \/ ChunkerSendNone
  \/ IndexerRecv
  \/ IndexerAdd

ChunkSpec == ChunkInit /\ [][ChunkNext]_vars

\* the log entries of one process_file call, and the chunks among them
Block(k) == SelectSeq(sent, LAMBDA e : e.call = k)
BlockChunks(k) ==
  LET some == SelectSeq(Block(k), LAMBDA e : e.msg.some)
  IN [j \in 1..Len(some) |-> some[j].msg.chunk]
Positions(k) == {j \in 1..Len(sent) : sent[j].call = k}
Completed(k) == k < calls \/ (k = calls /\ cpc \in {"idle", "failed"})
LenOf(k) == Block(k)[1].len
Stride == chunk_size - overlap_size

\* C5: the chunks of a processed file of L lines cover every line, start at
\* 0, C-O, 2(C-O), ..., are C long except the last, and the last holds 1..C
\* lines with end_line = start_line + len(text).
C5_ChunkCoverage ==
  \A k \in 1..calls :
    Completed(k) =>
      LET cs == BlockChunks(k)
          n == Len(cs)
      IN /\ \A i \in 0..(LenOf(k) - 1) :
              \E j \in 1..n : cs[j].start_line <= i /\ i < cs[j].end_line
         /\ \A j \in 1..n : cs[j].start_line = (j - 1) * Stride
         /\ \A j \in 1..(n - 1) : cs[j].end_line - cs[j].start_line = chunk_size
         /\ n >= 1 => /\ Len(cs[n].text) \in 1..chunk_size
                      /\ cs[n].end_line = cs[n].start_line + Len(cs[n].text)

C5_Witness ==
  \E k \in 1..calls :
    /\ Completed(k)
    /\ overlap_size >= 1
    /\ Len(BlockChunks(k)) >= 3
    /\ Len(BlockChunks(k)[Len(BlockChunks(k))].text) < chunk_size

\* C6: the text of every chunk sent is the file's lines from start_line on,
\* and the successor of a chunk starts overlap_size lines before the end of
\* that chunk, with its last overlap_size lines first.
C6_ChunkText ==
  \A k \in 1..calls :
    LET cs == BlockChunks(k)
        n == Len(cs)
    IN /\ \A j \in 1..n :
            cs[j].text = [i \in 1..Len(cs[j].text) |-> FileLine(LenOf(k), cs[j].start_line + i - 1)]
       /\ \A j \in 1..(n - 1) :
            /\ cs[j + 1].start_line = cs[j].end_line - overlap_size
            /\ Len(cs[j + 1].text) >= overlap_size
            /\ SubSeq(cs[j + 1].text, 1, overlap_size)
                 = SubSeq(cs[j].text, Len(cs[j].text) - overlap_size + 1, Len(cs[j].text))

C6_Witness ==
  \E k \in 1..calls :
    /\ overlap_size = 2
    /\ Len(BlockChunks(k)) >= 2
    /\ Len(BlockChunks(k)[2].text) > overlap_size

\* C7: the messages of one processed file are contiguous on the channel:
\* chunks of that file in strictly ascending start_line, then one None and
\* nothing more; an empty file gives the None alone.
C7_PerFileOrder ==
  \A k \in 1..calls :
    LET b == Block(k)
        pos == Positions(k)
    IN /\ \A i, j \in pos : \A m \in i..j : m \in pos
       /\ \A j \in 1..Len(b) :
            b[j].msg.some => /\ b[j].msg.chunk.path = b[j].path
                             /\ (j < Len(b) /\ b[j + 1].msg.some)
                                  => b[j].msg.chunk.start_line < b[j + 1].msg.chunk.start_line
       /\ \A j \in 1..(Len(b) - 1) : b[j].msg.some
       /\ Completed(k) => /\ Len(b) >= 1
                          /\ ~b[Len(b)].msg.some
                          /\ LenOf(k) = 0 => Len(b) = 1

C7_Witness ==
  /\ calls >= 2
  /\ Completed(2)
  /\ Len(Block(1)) >= 3
  /\ LenOf(2) = 0
  /\ Block(1)[1].path # Block(2)[1].path

(***************************************************************************)
(* ChunkId through serde (chunker.rs 176-231): a ChunkId is written either *)
(* by its derived Serialize or as the columns of a table row, may be       *)
(* altered in that form, and is read back by its Deserialize.              *)
(***************************************************************************)
\* #[derive(Serialize)] on ChunkId: its three fields
Serialize(cid) ==
  [path |-> cid.path, start_line |-> cid.start_line, end_line |-> cid.end_line]

\* the columns of the row of a chunk whose id and columns agree
RowColumns(cid) ==
  [id |-> to_hash(cid), path |-> cid.path, start_line |-> cid.start_line, end_line |-> cid.end_line]

\* impl Deserialize for ChunkId: Helper needs id, path, start_line, end_line
Deserialize(v) ==
  IF "id" \notin DOMAIN v
  THEN [ok |-> FALSE, error |-> "missing field id"]
  ELSE LET chunk_id == ChunkId(v.path, v.start_line, v.end_line)
       IN IF v.id # to_hash(chunk_id)
          THEN [ok |-> FALSE, error |-> "ChunkId hash mismatch"]
          ELSE [ok |-> TRUE, value |-> chunk_id]

ChunkIds == {ChunkId(p, s, e) : p \in Files, s \in 0..MaxLines, e \in 0..(MaxLines + MaxChunkSize)}

pipevars == <<fsvars, wvars, cvars, ivars, flags, cfgvars, path_event_rx, chunks_rx, table, sent, nproc, calls>>

IdInit ==
  /\ disk = [f \in Files |-> Absent]
  /\ dirs = {}
  /\ everLens = [f \in Files |-> {}]
  /\ walk = <<>>
  /\ chunk_size = MaxChunkSize
  /\ overlap_size = 0
  /\ InitPipe
  /\ InitMcpOff
  /\ InitExt
  /\ mg = MergeOff
  /\ rl = RulesOff
  /\ \E cid \in ChunkIds : ser = [stage |-> "new", cid |-> cid]

IdSerialize ==
  /\ ser.stage = "new"
  /\ ser' = [stage |-> "wire", cid |-> ser.cid, via |-> "serde", tampered |-> FALSE,
             wire |-> Serialize(ser.cid)]
  /\ UNCHANGED <<pipevars, xvars, mcpvars, mg, rl>>

IdRow ==
  /\ ser.stage = "new"
  /\ ser' = [stage |-> "wire", cid |-> ser.cid, via |-> "row", tampered |-> FALSE,
             wire |-> RowColumns(ser.cid)]
  /\ UNCHANGED <<pipevars, xvars, mcpvars, mg, rl>>

IdTamper(field, value) ==
  /\ ser.stage = "wire"
  /\ ~ser.tampered
  /\ ser.wire[field] # value
  /\ ser' = [ser EXCEPT !.tampered = TRUE, !.wire = [@ EXCEPT ![field] = value]]
  /\ UNCHANGED <<pipevars, xvars, mcpvars, mg, rl>>

IdDeserialize ==
  /\ ser.stage = "wire"
  /\ ser' = [stage |-> "done", cid |-> ser.cid, via |-> ser.via, tampered |-> ser.tampered,
             wire |-> ser.wire, out |-> Deserialize(ser.wire)]
  /\ UNCHANGED <<pipevars, xvars, mcpvars, mg, rl>>

IdNext ==
  \/ IdSerialize
  \/ IdRow
  \/ \E p \in Files : IdTamper("path", p)
  \/ \E n \in 0..(MaxLines + MaxChunkSize) : IdTamper("start_line", n)
  \/ \E n \in 0..(MaxLines + MaxChunkSize) : IdTamper("end_line", n)
  \/ IdDeserialize

IdSpec == IdInit /\ [][IdNext]_vars

\* C8: a ChunkId serialized and then deserialized is the same ChunkId, and
\* one whose path, start_line or end_line was changed in the serialized form
\* fails to deserialize.
C8_RoundTrip ==
  ser.stage = "done" =>
    /\ (ser.via = "serde" /\ ~ser.tampered) => ser.out = [ok |-> TRUE, value |-> ser.cid]
    /\ ser.tampered => ~ser.out.ok

(***************************************************************************)
(* The Retriever: LspServerSubsystem publishes the guarded LSP session in  *)
(* the watch cell (subsystems/lsp.rs), McpService::code_reuse_search       *)
(* (services/mcp.rs 280-388) gates on the cell and on first_index_scan and *)
(* then runs the fuzzy and the semantic branch concurrently (try_join!).   *)
(* One tool call runs at a time.  Hover requests and the rules evaluation  *)
(* are not part of this section.                                           *)
(***************************************************************************)
Names == {"a", "b"}
NameLists == UNION {[1..n -> Names] : n \in 0..MaxPatterns}
QueryLists == UNION {[1..n -> {"q"}] : n \in 0..MaxQueries}

WaitingLsp == "Waiting for LSP server to be initialized"
WaitingIndex == "Waiting for index to be initialized"

\* CallToolResult::error(text) inside Ok(..): an error in the tool result
ToolError(text) == [kind |-> "tool_error", text |-> text]

\* a gate without the test of first_index_scan
Gate_NoIndexTest(cell, index) ==
  IF cell = "None" THEN ToolError(WaitingLsp) ELSE [kind |-> "pass"]

\* a gate that tests first_index_scan before the watch cell
Gate_IndexFirst(cell, index) ==
  IF ~index THEN ToolError(WaitingIndex)
  ELSE IF cell = "None" THEN ToolError(WaitingLsp) ELSE [kind |-> "pass"]

\* the two early returns of code_reuse_search
Gate(cell, index) ==
  IF cell = "None" THEN ToolError(WaitingLsp)
  ELSE IF ~index THEN ToolError(WaitingIndex)
  ELSE [kind |-> "pass"]

\* the queries of a fuzzy branch that asks for the first pattern only
FuzzyQueries_FirstOnly(names) == IF names = <<>> THEN <<"">> ELSE <<Head(names)>>

\* get_workspace_symbols: one query per name, or the empty query
FuzzyQueries(names) == IF names = <<>> THEN <<"">> ELSE names

Request(op, arg) == [op |-> op, arg |-> arg]

McpInit ==
  /\ disk \in {[f \in Files |-> IF f = F1 THEN L ELSE Absent] : L \in {Absent} \cup FileLens}
  /\ dirs = {ParentDir(f) : f \in {g \in Files : disk[g] # Absent}}
  /\ everLens = [f \in Files |-> IF disk[f] = Absent THEN {} ELSE {disk[f]}]
  /\ chunk_size = MaxChunkSize
  /\ overlap_size = 1
  /\ InitPipe
  /\ InitExt
  /\ walk = WalkAll(WalkOrder)
  /\ ser = SerOff
  /\ mg = MergeOff
  /\ rl = RulesOff
  /\ lsp_server_rx = "None"
  /\ guard = 0
  /\ lpc = "init"
  /\ parallelizm \in 1..MaxParallelizm
  /\ InitCalls

\* LspServerSubsystem::run: the session is initialised and published
LspReady ==
  /\ lpc = "init"
  /\ guard' = parallelizm
  /\ lsp_server_rx' = "Some"
  /\ lpc' = "serving"
  /\ UNCHANGED <<pipevars, xvars, hvars, call, fz, sm, inflight, requests, result, ncalls, parallelizm>>

\* the state that GuardedLspServer::shutdown leaves alone
shutvars == <<pipevars, hvars, shutdown_requested, denied, positive, pd, sy, srv_rx, responses, taken,
              lsp_server_rx, call, fz, sm, inflight, requests, result, ncalls, parallelizm>>

\* run() past on_shutdown_requested: GuardedLspServer::shutdown takes a permit,
\* keeps it to its end, and sends the shutdown request
LspShutdown ==
  /\ lpc = "serving"
  /\ guard > 0
  /\ guard' = guard - 1
  /\ lpc' = "shutdown"
  /\ to_server' = Append(to_server, "shutdown")
  /\ UNCHANGED shutvars

\* the shutdown request has returned Ok: exit is sent, the permit is dropped
LspShutdownDone ==
  /\ lpc = "shutdown"
  /\ guard' = guard + 1
  /\ lpc' = "done"
  /\ to_server' = Append(to_server, "exit")
  /\ UNCHANGED shutvars

\* a shutdown that sends exit whatever the request returned
LspShutdownFailed_Exit ==
  /\ lpc = "shutdown"
  /\ guard' = guard + 1
  /\ lpc' = "failed"
  /\ to_server' = Append(to_server, "exit")
  /\ UNCHANGED shutvars

\* the shutdown request has returned Err: `?` leaves shutdown() and run()
LspShutdownFailed ==
  /\ lpc = "shutdown"
  /\ guard' = guard + 1
  /\ lpc' = "failed"
  /\ UNCHANGED <<shutvars, to_server>>

\* code_reuse_search up to try_join!: the two gates, then both branches start
CodeReuseSearch(semantic_queries, name_patterns) ==
  /\ call.pc = "idle"
  /\ ncalls < MaxCalls
  /\ ncalls' = ncalls + 1
  /\ requests' = <<>>
  /\ LET g == Gate(lsp_server_rx, first_index_scan)
         seen == [cell |-> lsp_server_rx, index |-> first_index_scan]
     IN IF g.kind = "pass"
        THEN /\ call' = [pc |-> "run", semantic_queries |-> semantic_queries,
                         name_patterns |-> name_patterns]
             /\ fz' = [pc |-> "next", todo |-> FuzzyQueries(name_patterns)]
             /\ sm' = [pc |-> "query", todo |-> semantic_queries, chunks |-> {}, uris |-> <<>>]
             /\ result' = [kind |-> "pending"] @@ seen
        ELSE /\ call' = [pc |-> "idle", semantic_queries |-> semantic_queries,
                         name_patterns |-> name_patterns]
             /\ result' = g @@ seen
             /\ fz' = BranchOff
             /\ sm' = SemanticOff
  /\ UNCHANGED <<pipevars, xvars, hvars, lsp_server_rx, guard, lpc, inflight, parallelizm>>

\* the outbound request is written to the server; its response is awaited
SendRequest(req) ==
  /\ inflight' = inflight \cup {req}
  /\ requests' = Append(requests, req)

\* send_workspace_symbol_request: try_acquire succeeds and its permit, a
\* temporary of the `if let`, is released before the request is written; or
\* it fails and the caller goes to wait on acquire
WorkspaceSymbolSend ==
  /\ fz.pc = "next"
  /\ IF guard > 0
     THEN /\ SendRequest(Request("workspace_symbol", Head(fz.todo)))
          /\ fz' = [fz EXCEPT !.pc = "wait"]
     ELSE /\ fz' = [fz EXCEPT !.pc = "busy"]
          /\ UNCHANGED <<inflight, requests>>
  /\ UNCHANGED <<pipevars, xvars, hvars, lsp_server_rx, guard, lpc, call, sm, result, ncalls, parallelizm>>

\* send_workspace_symbol_request: acquire returns; _permit is dropped at the
\* end of the block and the request is written
WorkspaceSymbolAcquire ==
  /\ fz.pc = "busy"
  /\ guard > 0
  /\ SendRequest(Request("workspace_symbol", Head(fz.todo)))
  /\ fz' = [fz EXCEPT !.pc = "wait"]
  /\ UNCHANGED <<pipevars, xvars, hvars, lsp_server_rx, guard, lpc, call, sm, result, ncalls, parallelizm>>

\* the response of the workspace_symbol request; the stream takes the next name
WorkspaceSymbolResponse ==
  /\ fz.pc = "wait"
  /\ inflight' = inflight \ {Request("workspace_symbol", Head(fz.todo))}
  /\ fz' = [pc |-> IF Tail(fz.todo) = <<>> THEN "done" ELSE "next", todo |-> Tail(fz.todo)]
  /\ UNCHANGED <<pipevars, xvars, hvars, lsp_server_rx, guard, lpc, call, sm, requests, result, ncalls, parallelizm>>

\* the ChunkIds a vector query yields: the rows that deserialize
Hits(t) == {Deserialize(r).value : r \in {q \in DOMAIN t : Deserialize(q).ok}}

\* get_semantic_symbols: top_n for the next query
TopN ==
  /\ sm.pc = "query"
  /\ sm.todo # <<>>
  /\ requests' = Append(requests, Request("top_n", Head(sm.todo)))
  /\ sm' = [sm EXCEPT !.todo = Tail(sm.todo), !.chunks = sm.chunks \cup Hits(table)]
  /\ UNCHANGED <<pipevars, xvars, hvars, lsp_server_rx, guard, lpc, call, fz, inflight, result, ncalls, parallelizm>>

\* the orders in which a HashSet can be iterated
Orders(S) == {o \in [1..Cardinality(S) -> S] : \A x \in S : \E i \in DOMAIN o : o[i] = x}

\* get_semantic_symbols: the set of the paths of the chunks found
SemanticPaths ==
  /\ sm.pc = "query"
  /\ sm.todo = <<>>
  /\ \E o \in Orders({c.path : c \in sm.chunks}) :
       sm' = [sm EXCEPT !.pc = IF o = <<>> THEN "done" ELSE "docs", !.uris = o]
  /\ UNCHANGED <<pipevars, xvars, hvars, lsp_server_rx, guard, lpc, call, fz, inflight, requests, result, ncalls, parallelizm>>

\* send_document_symbol_request: written to the server with no permit taken
DocumentSymbolSend ==
  /\ sm.pc = "docs"
  /\ SendRequest(Request("document_symbol", Head(sm.uris)))
  /\ sm' = [sm EXCEPT !.pc = "wait"]
  /\ UNCHANGED <<pipevars, xvars, hvars, lsp_server_rx, guard, lpc, call, fz, result, ncalls, parallelizm>>

DocumentSymbolResponse ==
  /\ sm.pc = "wait"
  /\ inflight' = inflight \ {Request("document_symbol", Head(sm.uris))}
  /\ sm' = [sm EXCEPT !.pc = IF Tail(sm.uris) = <<>> THEN "done" ELSE "docs", !.uris = Tail(sm.uris)]
  /\ UNCHANGED <<pipevars, xvars, hvars, lsp_server_rx, guard, lpc, call, fz, requests, result, ncalls, parallelizm>>

\* both branches of try_join! are complete: the tool result is a success
CodeReuseSearchReturn ==
  /\ call.pc = "run"
  /\ fz.pc = "done"
  /\ sm.pc = "done"
  /\ call' = [call EXCEPT !.pc = "idle"]
  /\ result' = [result EXCEPT !.kind = "success"]
  /\ UNCHANGED <<pipevars, xvars, hvars, lsp_server_rx, guard, lpc, fz, sm, inflight, requests, ncalls, parallelizm>>

McpNext ==
  \/ WatcherWalkSend
  \/ WatcherWalkDone
  \/ ChunkerRecv
  \/ ChunkerSendFull
  \/ ChunkerSendLast
  \/ ChunkerSendNone
  \/ IndexerRecv
  \/ IndexerAdd
  \/ LspReady
  \/ LspShutdown
  \/ LspShutdownDone
  \/ \E q \in QueryLists, n \in NameLists : CodeReuseSearch(q, n)
  \/ WorkspaceSymbolSend
  \/ WorkspaceSymbolAcquire
  \/ WorkspaceSymbolResponse
  \/ TopN
  \/ SemanticPaths
  \/ DocumentSymbolSend
  \/ DocumentSymbolResponse
  \/ CodeReuseSearchReturn

McpSpec == McpInit /\ [][McpNext]_vars

\* the Watcher's walk is scheduled fairly
McpFairSpec == McpSpec /\ WF_vars(WatcherWalkSend) /\ WF_vars(WatcherWalkDone)

\* a call has returned (or is running) having read the watch cell and the flag
Called == result.kind # "none"

NoRequestIssued == requests = <<>> /\ inflight = {} /\ fz.pc = "off" /\ sm.pc = "off"

\* C12: a code_reuse_search call that finds the LSP session present and
\* first_index_scan false returns the tool error "Waiting for index to be
\* initialized" and issues no vector-store query and no LSP request.
C12_IndexGate ==
  (Called /\ result.cell = "Some" /\ ~result.index) =>
    /\ result.kind = "tool_error"
    /\ result.text = WaitingIndex
    /\ NoRequestIssued

C12_Witness ==
  /\ Called
  /\ result.cell = "Some"
  /\ ~result.index
  /\ first_path_scan

\* C13: a code_reuse_search call that finds None in the watch cell returns
\* "Waiting for LSP server to be initialized" as an error of the tool result,
\* whatever first_index_scan is, and issues no vector-store query and no LSP
\* request.
C13_LspGate ==
  (Called /\ result.cell = "None") =>
    /\ result.kind = "tool_error"
    /\ result.text = WaitingLsp
    /\ NoRequestIssued

C13_Witness ==
  /\ Called
  /\ result.cell = "None"
  /\ result.index
  /\ call.name_patterns # <<>>
  /\ call.semantic_queries # <<>>

EmptyWorkspace == \A f \in Files : disk[f] = Absent

RECURSIVE WorkspaceQueries(_)
WorkspaceQueries(rs) ==
  IF rs = <<>> THEN <<>>
  ELSE IF Head(rs).op = "workspace_symbol"
       THEN <<Head(rs).arg>> \o WorkspaceQueries(Tail(rs))
       ELSE WorkspaceQueries(Tail(rs))

\* C16: when the fuzzy branch is complete it has issued one
\* workspace_symbol(p) request for each name pattern p and no
\* workspace_symbol("") request if name_patterns is not empty, and exactly
\* one workspace_symbol("") request if name_patterns is empty; before that it
\* has issued a prefix of them.
C16_FuzzyRequests ==
  LET qs == WorkspaceQueries(requests)
      want == IF call.name_patterns = <<>> THEN <<"">> ELSE call.name_patterns
  IN /\ fz.pc = "done" => qs = want
     /\ fz.pc \in {"next", "busy", "wait"} => Len(qs) <= Len(want) /\ qs = SubSeq(want, 1, Len(qs))
     /\ fz.pc = "off" => qs = <<>>

C16_Witness ==
  /\ fz.pc = "done"
  /\ call.name_patterns = <<>>
  /\ result.kind = "success"

\* C20: the LSP requests in flight are never more than parallelizm.
C20_InFlightBounded == Cardinality(inflight) <= parallelizm

(***************************************************************************)
(* The semantic merge of get_semantic_symbols (services/mod.rs 375-434):   *)
(* the chunk hits of one file chained with the file's document symbols are *)
(* sorted by DocumentPointer's Ord and scanned with the flag seen_chunk.    *)
(***************************************************************************)
\* a DocumentPointer: its variant, the start line Ord looks at, and its
\* position among the pointers of its variant
Pointer(kind, start_line, n) == [kind |-> kind, start_line |-> start_line, n |-> n]

\* impl Ord for DocumentPointer: start lines only, whatever the variants
cmp(left, right) ==
  IF left.start_line < right.start_line THEN "Less"
  ELSE IF left.start_line = right.start_line THEN "Equal"
  ELSE "Greater"

\* Itertools::sorted is a stable sort: an element goes behind its equals
RECURSIVE InsertSorted(_, _)
InsertSorted(x, s) ==
  IF s = <<>> THEN <<x>>
  ELSE IF cmp(x, Head(s)) = "Less" THEN <<x>> \o s
  ELSE <<Head(s)>> \o InsertSorted(x, Tail(s))

RECURSIVE sorted(_)
sorted(group) ==
  IF group = <<>> THEN <<>>
  ELSE InsertSorted(group[Len(group)], sorted(SubSeq(group, 1, Len(group) - 1)))

NoItem == [some |-> FALSE]

\* a scan closure that leaves seen_chunk set after emitting a symbol
Scan_NoReset(seen_chunk, ptr) ==
  IF ptr.kind = "Chunk" THEN [seen_chunk |-> TRUE, item |-> NoItem]
  ELSE IF seen_chunk THEN [seen_chunk |-> TRUE, item |-> [some |-> TRUE, symbol |-> ptr]]
  ELSE [seen_chunk |-> seen_chunk, item |-> NoItem]

\* the closure of sorted.scan(false, ..)
Scan(seen_chunk, ptr) ==
  IF ptr.kind = "Chunk" THEN [seen_chunk |-> TRUE, item |-> NoItem]
  ELSE IF seen_chunk THEN [seen_chunk |-> FALSE, item |-> [some |-> TRUE, symbol |-> ptr]]
  ELSE [seen_chunk |-> seen_chunk, item |-> NoItem]

\* chunks.chain(documents): the chunk hits first, then the symbols
Chain(chunkLines, symbolLines) ==
  [i \in 1..Len(chunkLines) |-> Pointer("Chunk", chunkLines[i], i)]
    \o [i \in 1..Len(symbolLines) |-> Pointer("Symbol", symbolLines[i], i)]

LineLists(n) == UNION {[1..k -> 0..MaxStartLine] : k \in 0..n}

PipeOffDisk ==
  /\ disk = [f \in Files |-> Absent]
  /\ dirs = {}
  /\ everLens = [f \in Files |-> {}]
  /\ walk = <<>>
  /\ chunk_size = MaxChunkSize
  /\ overlap_size = 0

PipeOff ==
  /\ PipeOffDisk
  /\ InitPipe
  /\ InitMcpOff
  /\ InitEnv

MergeInit ==
  /\ PipeOff
  /\ pd = PdOff
  /\ sy = SyOff
  /\ ser = SerOff
  /\ rl = RulesOff
  /\ \E c \in LineLists(MaxHits), d \in LineLists(MaxSymbols) :
       mg = [stage |-> "new", group |-> Chain(c, d)]

MergeSort ==
  /\ mg.stage = "new"
  /\ mg' = [stage |-> "scan", group |-> mg.group, rest |-> sorted(mg.group),
            seen_chunk |-> FALSE, out |-> <<>>]
  /\ UNCHANGED <<pipevars, xvars, mcpvars, ser, rl>>

MergeScan ==
  /\ mg.stage = "scan"
  /\ mg.rest # <<>>
  /\ LET r == Scan(mg.seen_chunk, Head(mg.rest))
     IN mg' = [mg EXCEPT !.rest = Tail(mg.rest), !.seen_chunk = r.seen_chunk,
                         !.out = Append(mg.out, r.item)]
  /\ UNCHANGED <<pipevars, xvars, mcpvars, ser, rl>>

\* filter_map keeps the symbols
MergeCollect ==
  /\ mg.stage = "scan"
  /\ mg.rest = <<>>
  /\ mg' = [stage |-> "done", group |-> mg.group,
            symbols |-> LET somes == SelectSeq(mg.out, LAMBDA it : it.some)
                        IN [i \in 1..Len(somes) |-> somes[i].symbol]]
  /\ UNCHANGED <<pipevars, xvars, mcpvars, ser, rl>>

MergeNext == MergeSort \/ MergeScan \/ MergeCollect

MergeSpec == MergeInit /\ [][MergeNext]_vars

Elems(q) == {q[i] : i \in DOMAIN q}

\* start-line order, a chunk before a symbol of its line, equals in the
\* order they were given
Before(x, y) ==
  \/ x.start_line < y.start_line
  \/ /\ x.start_line = y.start_line
     /\ \/ x.kind = "Chunk" /\ y.kind = "Symbol"
        \/ x.kind = y.kind /\ x.n < y.n

\* C15: within one file the merge emits a symbol iff some chunk hit has a
\* start line <= the symbol's and no other emitted symbol lies between that
\* chunk and the symbol in start-line order (chunk first on a shared line).
C15_MergeLaw ==
  mg.stage = "done" =>
    LET all == Elems(mg.group)
        E == Elems(mg.symbols)
    IN /\ E \subseteq {p \in all : p.kind = "Symbol"}
       /\ Len(mg.symbols) = Cardinality(E)
       /\ \A s \in {p \in all : p.kind = "Symbol"} :
            s \in E <=>
              \E c \in {p \in all : p.kind = "Chunk"} :
                /\ c.start_line <= s.start_line
                /\ ~\E e \in E \ {s} : Before(c, e) /\ Before(e, s)

\* one chunk with a symbol above it and two symbols below it: one emitted
C15_Witness ==
  /\ mg.stage = "done"
  /\ \E c, s1, s2, s3 \in Elems(mg.group) :
       /\ c.kind = "Chunk" /\ s1.kind = "Symbol" /\ s2.kind = "Symbol" /\ s3.kind = "Symbol"
       /\ s1.start_line < c.start_line
       /\ c.start_line < s2.start_line
       /\ s2.start_line < s3.start_line
       /\ Cardinality({p \in Elems(mg.group) : p.kind = "Chunk"}) = 1
       /\ mg.symbols = <<s2>>

(***************************************************************************)
(* Rule evaluation (services/mod.rs 74-195): SymbolRuleset::matches and    *)
(* Ruleset::get_rules.  A regex of the model is the wildcard ".*" or a     *)
(* literal that matches the text equal to it; a glob is a directory d      *)
(* standing for d/**.                                                      *)
(***************************************************************************)
NoCode == [some |-> FALSE]
SomeCode(code) == [some |-> TRUE, code |-> code]

SymbolInfo(name, kind, path, code) == [name |-> name, kind |-> kind, path |-> path, code |-> code]

RegexMatches(pattern, text) == pattern = ".*" \/ pattern = text

\* RegexSet::is_match: some pattern of the set matches
is_match(set, text) == \E i \in DOMAIN set : RegexMatches(set[i], text)

\* wax Glob::is_match for the glob d/**
GlobMatches(glob, path) == IsPrefix(glob \o <<"/">>, path)

\* a matches that takes a symbol without code as matching the code patterns
matches_NoCodeMatches(self, symbol_info) ==
  /\ is_match(self.kind, symbol_info.kind)
  /\ is_match(self.name, symbol_info.name)
  /\ \E i \in DOMAIN self.path : GlobMatches(self.path[i], symbol_info.path)
  /\ IF symbol_info.code.some THEN is_match(self.code, symbol_info.code.code) ELSE TRUE

\* SymbolRuleset::matches
matches(self, symbol_info) ==
  /\ is_match(self.kind, symbol_info.kind)
  /\ is_match(self.name, symbol_info.name)
  /\ \E i \in DOMAIN self.path : GlobMatches(self.path[i], symbol_info.path)
  /\ IF symbol_info.code.some THEN is_match(self.code, symbol_info.code.code) ELSE FALSE

\* impl PartialEq for SymbolRuleset: the patterns, not the rules
RulesetEq(a, b) ==
  /\ a.kind = b.kind
  /\ a.name = b.name
  /\ a.path = b.path
  /\ a.code = b.code

\* Tera::one_off(rule, context with symbols)
Render(rule, symbols) == [template |-> rule, symbols |-> symbols]

\* matched.entry(rule).or_default().push(symbol): the entry of an equal key
\* if there is one, else a new entry whose key is this ruleset
Push(matched, depends_on, i, symbol) ==
  LET found == {e \in DOMAIN matched : RulesetEq(depends_on[matched[e].key], depends_on[i])}
  IN IF found = {}
     THEN Append(matched, [key |-> i, symbols |-> <<symbol>>])
     ELSE [e \in DOMAIN matched |->
             IF e \in found THEN [matched[e] EXCEPT !.symbols = Append(@, symbol)]
             ELSE matched[e]]

RECURSIVE RenderAll(_, _, _)
RenderAll(matched, depends_on, order) ==
  IF order = <<>> THEN <<>>
  ELSE LET e == matched[Head(order)]
           rules == depends_on[e.key].rules
       IN [k \in DOMAIN rules |-> Render(rules[k], e.symbols)]
            \o RenderAll(matched, depends_on, Tail(order))

PatternSets ==
  { [kind |-> <<"Struct">>, name |-> <<"foo">>, path |-> <<D>>, code |-> <<"fn">>],
    [kind |-> <<"Function", "Struct">>, name |-> <<".*">>, path |-> <<DX, D>>, code |-> <<".*">>] }

RuleLists == {<<"a">>, <<"b", "c">>}

SymbolRulesets == {p @@ [rules |-> r] : p \in PatternSets, r \in RuleLists}

SymbolInfos ==
  { SymbolInfo("foo", "Struct", F1, SomeCode("fn")),
    SymbolInfo("foo", "Function", F1, SomeCode("fn")),
    SymbolInfo("bar", "Struct", F1, SomeCode("fn")),
    SymbolInfo("foo", "Struct", F2, SomeCode("fn")),
    SymbolInfo("foo", "Struct", F1, SomeCode("let")),
    SymbolInfo("foo", "Struct", F1, NoCode) }

Common == <<"c1", "c2">>

RulesInit ==
  /\ PipeOff
  /\ pd = PdOff
  /\ sy = SyOff
  /\ ser = SerOff
  /\ mg = MergeOff
  /\ \E d \in UNION {[1..n -> SymbolRulesets] : n \in 0..MaxRulesets},
        y \in UNION {[1..n -> SymbolInfos] : n \in 0..MaxRuleSymbols} :
       rl = [stage |-> "match", common |-> Common, depends_on |-> d, symbols |-> y,
             k |-> 0, matched |-> <<>>]

\* get_rules: the next pair of the two nested loops
RulesMatch ==
  /\ rl.stage = "match"
  /\ rl.k < Len(rl.depends_on) * Len(rl.symbols)
  /\ LET i == (rl.k \div Len(rl.symbols)) + 1
         j == (rl.k % Len(rl.symbols)) + 1
         m == matches(rl.depends_on[i], rl.symbols[j])
     IN rl' = [stage |-> "match", common |-> rl.common, depends_on |-> rl.depends_on,
               symbols |-> rl.symbols, k |-> rl.k + 1,
               matched |-> IF m THEN Push(rl.matched, rl.depends_on, i, rl.symbols[j])
                           ELSE rl.matched,
               last |-> [rule |-> i, symbol |-> j, out |-> m]]
  /\ UNCHANGED <<pipevars, xvars, mcpvars, ser, mg>>

\* get_rules: the HashMap is iterated in an order of its own and every
\* rule of every key is rendered
RulesRender ==
  /\ rl.stage = "match"
  /\ rl.k = Len(rl.depends_on) * Len(rl.symbols)
  /\ \E order \in Orders(DOMAIN rl.matched) :
       rl' = [stage |-> "done", common |-> rl.common, depends_on |-> rl.depends_on,
              symbols |-> rl.symbols,
              out |-> rl.common \o RenderAll(rl.matched, rl.depends_on, order)]
  /\ UNCHANGED <<pipevars, xvars, mcpvars, ser, mg>>

RulesNext == RulesMatch \/ RulesRender

RulesSpec == RulesInit /\ [][RulesNext]_vars

\* C17: matches(symbol) is true iff the kind set matches the symbol's kind,
\* the name set matches its name, some path glob matches its file path, and
\* the symbol has code that the code set matches; a symbol without code
\* matches no ruleset.
C17_MatchesAllFour ==
  (rl.stage = "match" /\ rl.k > 0) =>
    LET r == rl.depends_on[rl.last.rule]
        y == rl.symbols[rl.last.symbol]
        kindOk == \E i \in DOMAIN r.kind : RegexMatches(r.kind[i], y.kind)
        nameOk == \E i \in DOMAIN r.name : RegexMatches(r.name[i], y.name)
        pathOk == \E i \in DOMAIN r.path : GlobMatches(r.path[i], y.path)
        codeOk == y.code.some /\ \E i \in DOMAIN r.code : RegexMatches(r.code[i], y.code.code)
    IN /\ rl.last.out <=> (kindOk /\ nameOk /\ pathOk /\ codeOk)
       /\ ~y.code.some => ~rl.last.out

\* a symbol without code whose kind, name and path match has been evaluated
C17_Witness ==
  /\ rl.stage = "match"
  /\ rl.k > 0
  /\ LET r == rl.depends_on[rl.last.rule]
         y == rl.symbols[rl.last.symbol]
     IN /\ ~y.code.some
        /\ is_match(r.kind, y.kind)
        /\ is_match(r.name, y.name)
        /\ \E i \in DOMAIN r.path : GlobMatches(r.path[i], y.path)
        /\ ~rl.last.out

SeqBag(q) == [x \in Elems(q) |-> Cardinality({i \in DOMAIN q : q[i] = x})]

\* the symbols matching the i-th ruleset, each once, in the order given
Matching(i) == SelectSeq(rl.symbols, LAMBDA y : matches(rl.depends_on[i], y))

\* the renderings of the rulesets from the i-th on, in depends_on order
RECURSIVE ExpectedFrom(_)
ExpectedFrom(i) ==
  IF i > Len(rl.depends_on) THEN <<>>
  ELSE LET rules == rl.depends_on[i].rules
       IN (IF Matching(i) = <<>> THEN <<>>
           ELSE [k \in DOMAIN rules |-> Render(rules[k], Matching(i))])
            \o ExpectedFrom(i + 1)

Rendered == SubSeq(rl.out, Len(rl.common) + 1, Len(rl.out))

\* C18: every rule of every ruleset that matches a symbol is rendered exactly
\* once, with symbols bound to the symbols matching that ruleset, each once,
\* also when two rulesets have the same patterns; a ruleset matching no
\* symbol contributes nothing.
C18_EveryRulesetRendered ==
  rl.stage = "done" => SeqBag(Rendered) = SeqBag(ExpectedFrom(1))

DistinctPatterns ==
  \A i, j \in DOMAIN rl.depends_on : i # j => ~RulesetEq(rl.depends_on[i], rl.depends_on[j])

\* C19: for rulesets of pairwise different patterns, the list returned is
\* the common list followed by the rendered rules in the order of their
\* rulesets in depends_on and, within a ruleset, of its rules.
C19_RulesInOrder ==
  (rl.stage = "done" /\ DistinctPatterns) => rl.out = rl.common \o ExpectedFrom(1)

(***************************************************************************)
(* The Watcher's order of work (watcher.rs 104-133).                       *)
(***************************************************************************)
\* C23: every PathEvent of the initial walk is enqueued before
\* first_path_scan becomes true and before any debounced event is enqueued.
C23_WalkBeforeWatch ==
  [][/\ (walk' # walk) =>
          (/\ ~first_path_scan /\ ~first_path_scan'
           /\ path_event_rx' = Append(path_event_rx, PathEvent(Head(walk), "Create")))
     /\ (first_path_scan' /\ ~first_path_scan) => (walk = <<>>)
     /\ (Len(spawned') < Len(spawned)) => (walk = <<>> /\ first_path_scan)]_vars

\* a file of the walk and, after it, a debounced event for the same file have
\* both been enqueued and processed
C23_Witness ==
  /\ first_path_scan
  /\ fsCount >= 1
  /\ spawned = <<>>
  /\ \E f \in Files : nproc[f] >= 2

\* C24: the debouncer callback sends synchronously: when it has returned,
\* every PathEvent of its batch is in the channel, so no event is held by a
\* sender that runs beside the notifier (and batches cannot overtake each other).
C24_CallbackEnqueuesBatch == spawned = <<>>

\* C29: the Indexer's flush (delete the batch's ids, then append the batch)
\* is atomic for the other actors: between the delete and the append no
\* other actor acts on the table: the Chunker takes no event (each one makes
\* it run delete_by_path) and the table does not change.
C29_FlushAtomic ==
  [][(ipc = "add" /\ ipc' = "add") =>
       (Len(path_event_rx') >= Len(path_event_rx) /\ table' = table)]_vars

(***************************************************************************)
(* A workspace with a file that the positive glob does not match           *)
(* (chunker.rs 106-124, watcher.rs 45-61, 100-117).                        *)
(***************************************************************************)
GlobInit ==
  /\ disk \in [Files -> {Absent} \cup FileLens]
  /\ dirs = {ParentDir(f) : f \in {g \in Files : disk[g] # Absent}}
  /\ everLens = [f \in Files |-> IF disk[f] = Absent THEN {} ELSE {disk[f]}]
  /\ chunk_size = MaxChunkSize
  /\ overlap_size = 1
  /\ InitPipe
  /\ InitMcpOff
  /\ InitLspOff
  /\ InitRunning
  /\ denied = {}
  /\ positive = {F1}
  /\ pd = PdOff
  /\ sy = SyOff
  /\ ser = SerOff
  /\ mg = MergeOff
  /\ rl = RulesOff
  /\ walk = WalkAll(WalkOrder)

\* the pattern matches /d/f and does not match /d/x/g
GlobSpec == GlobInit /\ [][Next]_vars

\* C30: an event for a file that the positive glob does not match produces
\* no chunk and no None marker: every message on the chunk channel belongs
\* to a matching file.
C30_OnlyMatchingFilesChunked ==
  \A i \in 1..Len(sent) : sent[i].path \in positive

(***************************************************************************)
(* How the subsystems end: errors of process_file, closed channels and the *)
(* shutdown request (chunker.rs 96-128, indexer.rs 50-116,                 *)
(* watcher.rs 110-139, main.rs 59-79).                                     *)
(***************************************************************************)
\* the Watcher's walk sends into a channel whose receiver is gone: send fails
WatcherSendClosed ==
  /\ wpc = "walk"
  /\ walk # <<>>
  /\ ChunkerGone
  /\ wpc' = "failed"
  /\ UNCHANGED <<fsvars, walk, spawned, cvars, ivars, flags, cfgvars, path_event_rx, chunks_rx, table, sent, nproc, calls, aux>>

\* process_file sends into a channel whose receiver is gone: send fails
ChunkerSendClosed ==
  /\ cpc \in {"read", "none"}
  /\ IndexerGone
  /\ cpc' = "failed"
  /\ UNCHANGED <<fsvars, wvars, cwalk, cfile, text_chunk, ivars, flags, cfgvars, path_event_rx, chunks_rx, table, sent, nproc, calls, aux>>

\* the Chunker's recv() yields None: every sender is dropped and nothing is queued
ChunkerClosed ==
  /\ cpc = "idle"
  /\ path_event_rx = <<>>
  /\ WatcherGone
  /\ spawned = <<>>
  /\ cpc' = "finished"
  /\ UNCHANGED <<fsvars, wvars, cwalk, cfile, text_chunk, ivars, flags, cfgvars, path_event_rx, chunks_rx, table, sent, nproc, calls, aux>>

\* the Indexer's recv() yields None: the loop ends with whatever batch holds
IndexerClosed ==
  /\ ipc = "idle"
  /\ chunks_rx = <<>>
  /\ ChunkerGone
  /\ ipc' = "finished"
  /\ UNCHANGED <<fsvars, wvars, cvars, batch, lastNone, flags, cfgvars, path_event_rx, chunks_rx, table, sent, nproc, calls, aux>>

IoInit ==
  /\ disk \in [Files -> FileLens]
  /\ dirs = Dirs
  /\ everLens = [f \in Files |-> {disk[f]}]
  /\ chunk_size = MaxChunkSize
  /\ overlap_size = 1
  /\ InitPipe
  /\ InitMcpOff
  /\ InitLspOff
  /\ InitRunning
  /\ denied \in SUBSET Files
  /\ positive = Files
  /\ pd = PdOff
  /\ sy = SyOff
  /\ ser = SerOff
  /\ mg = MergeOff
  /\ rl = RulesOff
  /\ walk = WalkAll(WalkOrder)

IoNext ==
  \/ WatcherWalkSend
  \/ WatcherWalkDone
  \/ WatcherSendClosed
  \/ ChunkerRecv
  \/ ChunkerSendFull
  \/ ChunkerSendLast
  \/ ChunkerSendNone
  \/ IndexerRecv
  \/ IndexerAdd
  \/ IndexerClosed

\* the pipeline over a workspace some of whose files cannot be opened
IoSpec == IoInit /\ [][IoNext]_vars

\* C25: when opening or reading one file fails the Chunker skips that file
\* and keeps running: its run() does not end with the error.
C25_ChunkerSurvivesFileError == cpc # "failed"

\* Toplevel::catch_signals: a signal arrives and shutdown is requested
ShutdownRequest ==
  /\ ~shutdown_requested
  /\ shutdown_requested' = TRUE
  /\ UNCHANGED <<pipevars, hvars, mcpvars, lspvars, denied, positive, pd, sy>>

\* the Watcher behind subsys.on_shutdown_requested().await returns Ok(())
WatcherStop ==
  /\ wpc = "watching"
  /\ shutdown_requested
  /\ wpc' = "stopped"
  /\ UNCHANGED <<fsvars, walk, spawned, cvars, ivars, flags, cfgvars, path_event_rx, chunks_rx, table, sent, nproc, calls, aux>>

\* the Chunker's recv().cancel_on_shutdown(&subsys).await? yields
\* Err(CancelledByShutdown), which `?` returns from run
ChunkerCancel ==
  /\ cpc = "idle"
  /\ shutdown_requested
  /\ cpc' = "cancelled"
  /\ UNCHANGED <<fsvars, wvars, cwalk, cfile, text_chunk, ivars, flags, cfgvars, path_event_rx, chunks_rx, table, sent, nproc, calls, aux>>

\* the same in the Indexer; batch is dropped as it is
IndexerCancel ==
  /\ ipc = "idle"
  /\ shutdown_requested
  /\ ipc' = "cancelled"
  /\ UNCHANGED <<fsvars, wvars, cvars, batch, lastNone, flags, cfgvars, path_event_rx, chunks_rx, table, sent, nproc, calls, aux>>

\* what run() of a subsystem returned
Exit(s) ==
  IF s = "Watcher"
  THEN IF wpc = "stopped" THEN "ok" ELSE IF wpc = "failed" THEN "err" ELSE "running"
  ELSE IF s = "Chunker"
  THEN IF cpc = "finished" THEN "ok"
       ELSE IF cpc \in {"failed", "cancelled"} THEN "err" ELSE "running"
  ELSE IF ipc = "finished" THEN "ok" ELSE IF ipc = "cancelled" THEN "err" ELSE "running"

ShutdownInit ==
  /\ disk \in [Files -> {Absent} \cup FileLens]
  /\ dirs = {ParentDir(f) : f \in {g \in Files : disk[g] # Absent}}
  /\ everLens = [f \in Files |-> IF disk[f] = Absent THEN {} ELSE {disk[f]}]
  /\ chunk_size = MaxChunkSize
  /\ overlap_size = 1
  /\ InitCommon
  /\ walk = WalkAll(WalkOrder)

ShutdownNext ==
  \/ WatcherWalkSend
  \/ WatcherWalkDone
  \/ WatcherSendClosed
  \/ WatcherStop
  \/ ChunkerRecv
  \/ ChunkerSendFull
  \/ ChunkerSendLast
  \/ ChunkerSendNone
  \/ ChunkerSendClosed
  \/ ChunkerClosed
  \/ ChunkerCancel
  \/ IndexerRecv
  \/ IndexerAdd
  \/ IndexerClosed
  \/ IndexerCancel
  \/ ShutdownRequest

\* the pipeline with a shutdown request arriving at any moment
ShutdownSpec == ShutdownInit /\ [][ShutdownNext]_vars

\* C26: on shutdown with a non-empty batch (fewer than batch_size chunks, no
\* None seen yet) the Indexer flushes the batch before it terminates: an
\* Indexer that has ended after the request holds no unflushed chunk.
C26_FlushOnShutdown == (shutdown_requested /\ IndexerGone) => batch = <<>>

\* C27: on shutdown with no prior failure every subsystem, the Chunker and
\* the Indexer cancelled in recv() included, ends with success.
C27_CleanShutdown ==
  (shutdown_requested /\ wpc # "failed" /\ cpc # "failed") =>
    \A s \in Subsystems : Exit(s) # "err"

(***************************************************************************)
(* The language-server session: LspServerSubsystem::run from initialize    *)
(* to the published GuardedLspServer, wait_completion and the responder    *)
(* task of fake_responder (subsystems/lsp.rs 208-319).                     *)
(***************************************************************************)
MaxServerMessages == 3

\* McpProgressToken::RootsScanned
RootsScanned == "rustAnalyzer/Roots Scanned"

\* ServerMessage::Notification; value is the parsed shape of params:
\* "None" (no params), "Bad" (not a ProgressParams), or the WorkDoneProgress kind
\* ("Report" stands for every kind that is not End)
Notification(method, token, value) ==
  [type |-> "Notification", method |-> method, has_id |-> FALSE, token |-> token, value |-> value]

\* ServerMessage::Request; has_id is request.id().is_some()
ServerRequest(method, has_id) ==
  [type |-> "Request", method |-> method, has_id |-> has_id, token |-> "", value |-> ""]

ServerMessages ==
  {Notification("$/progress", t, v) : t \in {RootsScanned, "rustAnalyzer/cachePriming"},
                                      v \in {"None", "Bad", "Report", "End"}}
    \cup {Notification("window/logMessage", "", "None")}
    \cup {ServerRequest(m, h) : m \in {"window/workDoneProgress/create", "shutdown",
                                       "workspace/configuration"},
                                h \in BOOLEAN}

callvars == <<call, fz, sm, inflight, requests, result, ncalls, parallelizm>>
othervars == <<pipevars, hvars, callvars, shutdown_requested, denied, positive, pd, sy>>

LspInit ==
  /\ PipeOffDisk
  /\ InitPipe
  /\ InitEnv
  /\ pd = PdOff
  /\ sy = SyOff
  /\ ser = SerOff
  /\ mg = MergeOff
  /\ rl = RulesOff
  /\ lsp_server_rx = "None"
  /\ guard = 0
  /\ lpc = "init"
  /\ parallelizm = 1
  /\ InitCalls

\* the language server (environment) writes one message; n numbers the messages
ServerSend(m) ==
  /\ lpc # "off"
  /\ ~srv_rx.closed
  /\ Len(taken) + Len(srv_rx.queue) < MaxServerMessages
  /\ srv_rx' = [srv_rx EXCEPT !.queue =
                  Append(@, m @@ [n |-> Len(taken) + Len(srv_rx.queue) + 1])]
  /\ UNCHANGED <<othervars, lsp_server_rx, guard, lpc, responses, taken, to_server>>

\* the language server exits or its pipe breaks: the sender side is dropped
ServerClose ==
  /\ lpc # "off"
  /\ ~srv_rx.closed
  /\ srv_rx' = [srv_rx EXCEPT !.closed = TRUE]
  /\ UNCHANGED <<othervars, lsp_server_rx, guard, lpc, responses, taken, to_server>>

\* server.initialize, server.initialized, then fake_responder enters wait_completion
LspInitialize ==
  /\ lpc = "init"
  /\ lpc' = "wait"
  /\ UNCHANGED <<othervars, lsp_server_rx, guard, lspvars>>

\* what one message does to the loop of wait_completion
WaitOutcome(m) ==
  IF m.type = "Notification" /\ m.method = "$/progress" /\ m.value # "None"
  THEN IF m.value = "Bad" THEN "error"
       ELSE IF m.token = RootsScanned /\ m.value = "End" THEN "break"
       ELSE "continue"
  ELSE "continue"

\* wait_completion: rx.recv() yields a message
LspWaitRecv ==
  /\ lpc = "wait"
  /\ srv_rx.queue # <<>>
  /\ LET m == Head(srv_rx.queue)
         o == WaitOutcome(m)
     IN /\ srv_rx' = [srv_rx EXCEPT !.queue = Tail(@)]
        /\ taken' = Append(taken, [msg |-> m, by |-> "wait_completion"])
        /\ lpc' = IF o = "error" THEN "failed" ELSE IF o = "break" THEN "ready" ELSE "wait"
  /\ UNCHANGED <<othervars, lsp_server_rx, guard, responses, to_server>>

\* wait_completion: rx.recv() yields None, the while-let ends and Ok(()) is returned
LspWaitClosed ==
  /\ lpc = "wait"
  /\ srv_rx.queue = <<>>
  /\ srv_rx.closed
  /\ lpc' = "ready"
  /\ UNCHANGED <<othervars, lsp_server_rx, guard, lspvars>>

\* run after fake_responder returned Ok: the GuardedLspServer goes into the cell
LspPublish ==
  /\ lpc = "ready"
  /\ guard' = parallelizm
  /\ lsp_server_rx' = "Some"
  /\ lpc' = "serving"
  /\ UNCHANGED <<othervars, lspvars>>

\* the responder task exists from the return of wait_completion on
Responding == lpc \in {"ready", "serving", "shutdown", "done"}

Reply_AlwaysOk(method) == "Ok"

\* the match on request.method() in the responder
Reply(method) ==
  IF method \in {"window/workDoneProgress/create", "shutdown"} THEN "Ok" ELSE "MethodNotFound"

\* the responder task: one turn of its while-let loop
ResponderRecv ==
  /\ Responding
  /\ srv_rx.queue # <<>>
  /\ LET m == Head(srv_rx.queue)
     IN /\ srv_rx' = [srv_rx EXCEPT !.queue = Tail(@)]
        /\ taken' = Append(taken, [msg |-> m, by |-> "responder"])
        /\ responses' = IF m.type = "Request" /\ m.has_id
                        THEN Append(responses, [id |-> m.n, kind |-> Reply(m.method)])
                        ELSE responses
  /\ UNCHANGED <<othervars, lsp_server_rx, guard, lpc, to_server>>

LspNext ==
  \/ \E m \in ServerMessages : ServerSend(m)
  \/ ServerClose
  \/ LspInitialize
  \/ LspWaitRecv
  \/ LspWaitClosed
  \/ LspPublish
  \/ ResponderRecv
  \/ LspShutdown
  \/ LspShutdownDone
  \/ LspShutdownFailed

LspSpec == LspInit /\ [][LspNext]_vars

\* wait_completion has taken the End of the ready token
ReadySeen ==
  \E i \in 1..Len(taken) :
    /\ taken[i].by = "wait_completion"
    /\ taken[i].msg.type = "Notification"
    /\ taken[i].msg.method = "$/progress"
    /\ taken[i].msg.token = RootsScanned
    /\ taken[i].msg.value = "End"

\* C21: the watch cell holds Some only after the driver has received a
\* $/progress notification with the ready token and the value End; a closed
\* channel does not publish the session.
C21_PublishedOnlyAfterReady == lsp_server_rx = "Some" => ReadySeen

RepliesTo(n) == {i \in 1..Len(responses) : responses[i].id = n}

MaxPathLen == 4

PathChars == {"/", "a", "."}
Paths == UNION {[1..n -> PathChars] : n \in 0..MaxPathLen}

\* the segments between separators, without the empty ones and without "."
RECURSIVE Segments(_, _)
Segments(p, cur) ==
  LET done == IF cur = <<>> \/ cur = <<".">> THEN <<>> ELSE <<cur>>
  IN IF p = <<>> THEN done
     ELSE IF Head(p) = "/" THEN done \o Segments(Tail(p), <<>>)
     ELSE Segments(Tail(p), Append(cur, Head(p)))

\* Path::components: RootDir for a leading separator, CurDir for a leading
\* ".", then the segments ("..", ParentDir, is kept like a name)
components(p) ==
  LET first == IF p = <<>> THEN <<>>
               ELSE IF Head(p) = "/" THEN << <<"/">> >>
               ELSE IF Head(p) = "." /\ (Len(p) = 1 \/ p[2] = "/") THEN << <<".">> >>
               ELSE <<>>
  IN first \o Segments(p, <<>>)

\* a count of the positions that agree, whether or not they form a prefix
RECURSIVE common_len_Filter(_, _)
common_len_Filter(a, b) ==
  IF a = <<>> \/ b = <<>> THEN 0
  ELSE (IF Head(a) = Head(b) THEN 1 ELSE 0) + common_len_Filter(Tail(a), Tail(b))

\* a.iter().zip(b.iter()).take_while(|(x, y)| x == y).count()
RECURSIVE common_len(_, _)
common_len(a, b) ==
  IF a = <<>> \/ b = <<>> THEN 0
  ELSE IF Head(a) = Head(b) THEN 1 + common_len(Tail(a), Tail(b))
  ELSE 0

path_distance(pa, pb) ==
  LET a == components(pa)
      b == components(pb)
  IN (Len(a) - common_len(a, b)) + (Len(b) - common_len(a, b))

PathInit ==
  /\ PipeOff
  /\ sy = SyOff
  /\ ser = SerOff
  /\ mg = MergeOff
  /\ rl = RulesOff
  /\ \E a \in Paths, b \in Paths : pd = [stage |-> "new", a |-> a, b |-> b]

\* the function is applied to the pair in both orders and to a with itself
PathDistanceCalls ==
  /\ pd.stage = "new"
  /\ pd' = [stage |-> "done", a |-> pd.a, b |-> pd.b,
            ab |-> path_distance(pd.a, pd.b),
            ba |-> path_distance(pd.b, pd.a),
            aa |-> path_distance(pd.a, pd.a)]
  /\ UNCHANGED <<pipevars, hvars, mcpvars, lspvars, shutdown_requested, denied, positive, sy>>

PathNext == PathDistanceCalls

PathSpec == PathInit /\ [][PathNext]_vars

\* the length of the longest common prefix of two component sequences
LongestCommonPrefix(x, y) ==
  CHOOSE k \in 0..Len(x) :
    /\ k <= Len(y)
    /\ SubSeq(x, 1, k) = SubSeq(y, 1, k)
    /\ \A j \in (k + 1)..Len(x) : j <= Len(y) => SubSeq(x, 1, j) # SubSeq(y, 1, j)

\* C28: path_distance(a, b) = path_distance(b, a) =
\* (len(a) - k) + (len(b) - k) with k the length of the longest common
\* prefix of the two paths' components, and path_distance(a, a) = 0.
C28_PathDistance ==
  pd.stage = "done" =>
    LET x == components(pd.a)
        y == components(pd.b)
        k == LongestCommonPrefix(x, y)
    IN /\ pd.ab = pd.ba
       /\ pd.ab = (Len(x) - k) + (Len(y) - k)
       /\ pd.aa = 0

\* a/a and ../a share no prefix although their second components agree
C28_Witness ==
  /\ pd.stage = "done"
  /\ pd.a = <<"a", "/", "a">>
  /\ pd.b = <<".", ".", "/", "a">>
  /\ pd.ab = 4

(***************************************************************************)
(* The Indexer's batch and the order of the readiness flags                *)
(* (indexer.rs 50-112, chunker.rs 78-87).                                  *)
(***************************************************************************)
\* the step takes a message from the chunk channel: the Indexer handles it
IndexerTakes == Len(chunks_rx') < Len(chunks_rx)

\* C31: the Indexer flushes exactly when, after handling a message, the batch
\* holds batch_size chunks or the message was None and the batch is not
\* empty; a flush leaves the batch empty, so the batch never holds more than
\* batch_size chunks and is empty once a None has been handled.
C31_FlushTrigger ==
  /\ [](/\ Len(batch) <= BatchSize
        /\ (ipc = "idle") => (Len(batch) < BatchSize)
        /\ (ipc = "idle" /\ lastNone) => (batch = <<>>))
  /\ [][/\ IndexerTakes =>
             ((ipc' = "add") <=> (Len(batch') = BatchSize \/ (lastNone' /\ batch' # <<>>)))
        /\ (ipc = "add" /\ ipc' = "idle") => (batch' = <<>>)
        /\ (ipc' = "add") => (ipc = "add" \/ IndexerTakes)]_vars

\* a None has made the Indexer flush a batch that is not full
C31_Witness ==
  /\ ipc = "add"
  /\ lastNone
  /\ batch # <<>>
  /\ Len(batch) < BatchSize

\* C32: first_index_scan is set only in a step of the Indexer in which
\* first_chunks_scan is true, the chunk channel is empty and the message just
\* handled was None; hence first_index_scan implies first_chunks_scan, which
\* implies first_path_scan.
C32_IndexScanOrder ==
  /\ [](/\ first_index_scan => first_chunks_scan
        /\ first_chunks_scan => first_path_scan)
  /\ [][(first_index_scan' /\ ~first_index_scan) =>
          (/\ first_chunks_scan
           /\ chunks_rx' = <<>>
           /\ lastNone'
           /\ ipc' = "idle"
           /\ (IndexerTakes \/ ipc = "add"))]_vars

\* the flag has been set by the step that appended the flushed batch
C32_Witness ==
  /\ first_index_scan
  /\ ipc = "idle"
  /\ lastNone
  /\ batch = <<>>
  /\ chunks_rx = <<>>
  /\ table # EmptyBag

(***************************************************************************)
(* The end of the language-server session (lsp.rs 31-39, 220-222).         *)
(***************************************************************************)
\* C33: on shutdown the driver takes a semaphore permit, then sends the LSP
\* shutdown request, and sends exit only after that request has returned
\* successfully; exit is never sent before shutdown.
C33_ShutdownThenExit ==
  /\ [](/\ (\E i \in 1..Len(to_server) : to_server[i] = "exit") =>
             (to_server = <<"shutdown", "exit">> /\ lpc = "done")
        /\ (lpc = "shutdown") => (guard < parallelizm /\ to_server = <<"shutdown">>))
  /\ [][(to_server' # to_server) =>
          \/ (to_server = <<>> /\ to_server' = <<"shutdown">> /\ guard > 0 /\ guard' = guard - 1)
          \/ (to_server = <<"shutdown">> /\ to_server' = <<"shutdown", "exit">>
              /\ lpc = "shutdown" /\ lpc' = "done")]_vars

\* a session that was shut down and then told to exit
C33_Witness ==
  /\ lsp_server_rx = "Some"
  /\ lpc = "done"
  /\ to_server = <<"shutdown", "exit">>
  /\ guard = parallelizm

(***************************************************************************)
(* The LSP requests of one search and their failures: get_workspace_symbols *)
(* under get_fuzzy_symbols, get_documents_symbols under                    *)
(* get_semantic_symbols, joined by try_join! in code_reuse_search          *)
(* (services/mod.rs 203-310, 369-371, 536-624, 691-722; mcp.rs 303-310).   *)
(***************************************************************************)
\* Result<Option<Response>>: Err, Ok(None) or Ok(Some(response))
Outcomes == {"Err", "None", "Some"}

\* the symbols of a response: here one symbol, which names its request
SymbolsOf(req) == <<[found_by |-> req]>>

\* .inspect_err(..).ok().flatten() and the flat_map over the response
KeepOk(o, req) == IF o = "Some" THEN SymbolsOf(req) ELSE <<>>

SyInit ==
  /\ PipeOff
  /\ pd = PdOff
  /\ ser = SerOff
  /\ mg = MergeOff
  /\ rl = RulesOff
  /\ \E n \in NameLists, u \in UNION {Orders(S) : S \in SUBSET Files} :
       sy = [stage |-> "run", names |-> FuzzyQueries(n), uris |-> u,
             fuzzy |-> <<>>, documents |-> <<>>, returned |-> <<>>]

syframe == <<pipevars, hvars, mcpvars, lspvars, shutdown_requested, denied, positive, pd>>

\* a workspace_symbol request whose error is returned to the caller with `?`
WorkspaceSymbolResult_Propagate(o) ==
  /\ sy.stage = "run"
  /\ sy.names # <<>>
  /\ LET req == Request("workspace_symbol", Head(sy.names))
     IN sy' = [sy EXCEPT !.stage = IF o = "Err" THEN "failed" ELSE "run",
                         !.names = Tail(@),
                         !.fuzzy = @ \o KeepOk(o, req),
                         !.returned = Append(@, [req |-> req, outcome |-> o])]
  /\ UNCHANGED syframe

\* get_workspace_symbols: the request for the next name has returned o
WorkspaceSymbolResult(o) ==
  /\ sy.stage = "run"
  /\ sy.names # <<>>
  /\ LET req == Request("workspace_symbol", Head(sy.names))
     IN sy' = [sy EXCEPT !.names = Tail(@),
                         !.fuzzy = @ \o KeepOk(o, req),
                         !.returned = Append(@, [req |-> req, outcome |-> o])]
  /\ UNCHANGED syframe

\* get_documents_symbols: the request for the next URI has returned o
DocumentSymbolResult(o) ==
  /\ sy.stage = "run"
  /\ sy.uris # <<>>
  /\ LET req == Request("document_symbol", Head(sy.uris))
     IN sy' = [sy EXCEPT !.uris = Tail(@),
                         !.documents = @ \o KeepOk(o, req),
                         !.returned = Append(@, [req |-> req, outcome |-> o])]
  /\ UNCHANGED syframe

\* both branches have returned Ok(symbols): try_join! yields the pair
SymbolsReturn ==
  /\ sy.stage = "run"
  /\ sy.names = <<>>
  /\ sy.uris = <<>>
  /\ sy' = [sy EXCEPT !.stage = "done"]
  /\ UNCHANGED syframe

SyNext ==
  \/ \E o \in Outcomes : WorkspaceSymbolResult(o)
  \/ \E o \in Outcomes : DocumentSymbolResult(o)
  \/ SymbolsReturn

SySpec == SyInit /\ [][SyNext]_vars

\* the requests of one kind that returned a response, in the order issued
Answered(op) ==
  SelectSeq(sy.returned, LAMBDA r : r.req.op = op /\ r.outcome = "Some")

\* C34: a failed workspace_symbol or document_symbol request counts as an
\* empty result for that request only: the search does not fail, and it
\* returns exactly the symbols of the requests that were answered.
C34_FailedRequestIsEmpty ==
  /\ sy.stage # "failed"
  /\ sy.stage = "done" =>
       /\ sy.fuzzy = [i \in 1..Len(Answered("workspace_symbol")) |->
                        [found_by |-> Answered("workspace_symbol")[i].req]]
       /\ sy.documents = [i \in 1..Len(Answered("document_symbol")) |->
                            [found_by |-> Answered("document_symbol")[i].req]]

\* a search in which one request of each kind failed and another was answered
C34_Witness ==
  /\ sy.stage = "done"
  /\ \E i \in 1..Len(sy.returned) :
       sy.returned[i].req.op = "workspace_symbol" /\ sy.returned[i].outcome = "Err"
  /\ \E i \in 1..Len(sy.returned) :
       sy.returned[i].req.op = "document_symbol" /\ sy.returned[i].outcome = "Err"
  /\ sy.fuzzy # <<>>
  /\ sy.documents # <<>>

(***************************************************************************)
(* The first scan of a workspace that does not change afterwards           *)
(* (watcher.rs 106-121, chunker.rs 78-87, indexer.rs 101-112).             *)
(***************************************************************************)
ScanNext ==
  \/ WatcherWalkSend
  \/ WatcherWalkDone
  \/ ChunkerRecv
  \/ ChunkerSendFull
  \/ ChunkerSendLast
  \/ ChunkerSendNone
  \/ IndexerRecv
  \/ IndexerAdd

\* Watcher, Chunker and Indexer are tasks of one runtime: each step that
\* stays possible is taken
ScanFairSpec ==
  /\ Init
  /\ [][ScanNext]_vars
  /\ WF_vars(WatcherWalkSend)
  /\ WF_vars(WatcherWalkDone)
  /\ WF_vars(ChunkerRecv)
  /\ WF_vars(ChunkerSendFull)
  /\ WF_vars(ChunkerSendLast)
  /\ WF_vars(ChunkerSendNone)
  /\ WF_vars(IndexerRecv)
  /\ WF_vars(IndexerAdd)

\* C35: when the initial walk finds a file and no filesystem event follows,
\* first_chunks_scan and first_index_scan eventually become true in every
\* fair interleaving of Watcher, Chunker and Indexer.
C35_ScanCompletes == (walk # <<>>) => <>(first_chunks_scan /\ first_index_scan)

(***************************************************************************)
(* What first_index_scan reports (indexer.rs 50-112, chunker.rs 66-87).    *)
(***************************************************************************)
\* the rows of one process_file run over every file of the walk
RECURSIVE WalkRows(_)
WalkRows(files) ==
  IF files = <<>> THEN EmptyBag
  ELSE as_record_batch(process_file(Head(files), disk[Head(files)])) (+) WalkRows(Tail(files))

IndexScanRises == ~first_index_scan /\ first_index_scan'

\* C36: in the step that makes first_index_scan true the walk has been sent
\* and taken in full, every file of it has been through process_file, no
\* chunk is left in the chunk channel or in the batch, and, as long as no
\* filesystem event has occurred, the table holds exactly the rows of the
\* chunks of the files of the walk.
C36_IndexScanMeansIndexed ==
  [][IndexScanRises =>
       /\ first_path_scan /\ first_chunks_scan
       /\ walk = <<>>
       /\ chunks_rx' = <<>> /\ batch' = <<>> /\ ipc' = "idle"
       /\ \A i \in 1..Len(sent) : sent[i].msg.some => nproc[sent[i].path] > 0
       /\ (fsCount = 0 =>
             /\ path_event_rx = <<>>
             /\ \A i \in 1..Len(WalkAll(WalkOrder)) : nproc[WalkAll(WalkOrder)[i]] = 1
             /\ table' = WalkRows(WalkAll(WalkOrder)))]_vars

\* first_index_scan is true after a walk of two files, the larger in two chunks
C36_Witness ==
  /\ first_index_scan
  /\ fsCount = 0
  /\ \A f \in Files : nproc[f] = 1
  /\ disk[F1] = MaxLines
  /\ table = WalkRows(WalkOrder)

(***************************************************************************)
(* The rows an event leaves alone (repositories/mod.rs 19-46,              *)
(* chunker.rs 103-121).                                                    *)
(***************************************************************************)
\* the file of row r is path p or lies inside directory p
Concerns(p, r) == r.path = p \/ IsPrefix(p \o <<"/">>, r.path)

\* C37: the Chunker's handling of an event for path P leaves every row
\* unchanged whose file is neither P nor inside directory P.
C37_EventLeavesOtherRows ==
  [][ChunkerRecv =>
       LET P == Head(path_event_rx).path
       IN \A r \in DOMAIN table :
            ~Concerns(P, r) => (r \in DOMAIN table' /\ table'[r] = table[r])]_vars

(***************************************************************************)
(* Server requests and their replies (lsp.rs 226-306).                     *)
(***************************************************************************)
\* run(), wait_completion and the responder task are tasks of the runtime:
\* a message that waits in the channel is taken
LspFairSpec ==
  /\ LspInit
  /\ [][LspNext]_vars
  /\ WF_vars(LspInitialize)
  /\ WF_vars(LspWaitRecv)
  /\ WF_vars(LspWaitClosed)
  /\ WF_vars(LspPublish)
  /\ WF_vars(ResponderRecv)

\* the client has taken message n from the channel and it is a request with an id
RequestReceived(n) ==
  \E i \in 1..Len(taken) :
    taken[i].msg.n = n /\ taken[i].msg.type = "Request" /\ taken[i].msg.has_id

\* C38: every request with an id that the client receives after initialized,
\* also while wait_completion still waits for the End of the ready token,
\* eventually gets a reply.
C38_RequestsAnswered ==
  \A n \in 1..MaxServerMessages : RequestReceived(n) ~> (RepliesTo(n) # {})

(***************************************************************************)
(* Progress of the chunks of one file (chunker.rs 49-76, 287-298).         *)
(***************************************************************************)
LinesOf(tc) == {tc.text[i] : i \in 1..Len(tc.text)}

\* C39: every chunk sent for a file holds at least one line that the chunk
\* sent before it for the same file does not hold, for every chunk_size,
\* overlap_size < chunk_size and file length.
C39_ChunkAddsLine ==
  \A k \in 1..calls :
    LET cs == BlockChunks(k)
    IN \A j \in 1..(Len(cs) - 1) : LinesOf(cs[j + 1]) \ LinesOf(cs[j]) # {}

====
